---- MODULE Spec2Model ----
(***************************************************************************)
(* A model of the summarizer strategies of hn_summarizer: the heuristic    *)
(* BasicSummarizer, the model-backed OllamaSummarizer and LLMAPISummarizer *)
(* (summarize and enhanced_summarize), their shared helpers in             *)
(* BaseSummarizer, and the fallback / error protocol between them.         *)
(*                                                                         *)
(* Text.  A Python str is a sequence of atoms.  An atom is a TLA+ string:  *)
(* a single character of input text ("a", " ", "\n", ".", "1", ...) or a   *)
(* literal chunk that the program itself writes ("Article:", "URL:", a     *)
(* fixed placeholder sentence, a section label such as "KEY_POINTS:").     *)
(* Literal chunks never begin or end with whitespace, so str.strip and the *)
(* regular expressions of the source act on atoms as they act on           *)
(* characters.  A list of str is a sequence of such sequences.             *)
(***************************************************************************)
EXTENDS Integers, Sequences, FiniteSets, TLC

(***************************************************************************)
(* Program constants (config.py).                                          *)
(***************************************************************************)
MIN_SENTENCE_LENGTH == 20

SUMMARY_LINES == 3

MAX_LINE_LENGTH == 120

KEY_POINTS_COUNT == 3

RELATED_LINKS_COUNT == 3

(* base.py:87, the display budget of the URL line *)
URL_DISPLAY_LIMIT == 80

(***************************************************************************)
(* Character classes.                                                      *)
(***************************************************************************)
(* str.strip() and the regex class \s *)
Whitespace == {" ", "\n"}

(* the regex class [.!?] of basic.py *)
SentenceEnd == {".", "!", "?"}

(* the regex class \d *)
Digits == {"1", "2", "3", "4", "5", "6", "7", "8", "9", "0"}

(* single characters of the regex class [A-Z_] that occur in model inputs *)
UpperChars == {"A", "B", "_"}

(* the four section labels of the enhanced prompt, each an atom LABEL: *)
SectionLabels == {"ARTICLE_SUMMARY:", "COMMENT_SUMMARY:", "KEY_POINTS:", "RELATED_LINKS:"}

(* atoms that as a whole match [A-Z_]+: ; "NOTE:" stands for any other label *)
CapsLabelAtoms == SectionLabels \cup {"NOTE:"}

(***************************************************************************)
(* Python str primitives.                                                  *)
(***************************************************************************)
Min(a, b) == IF a <= b THEN a ELSE b

(* s[:n] *)
Take(s, n) == SubSeq(s, 1, Min(n, Len(s)))

(* s[n:]  (0-based n) *)
Drop(s, n) == SubSeq(s, n + 1, Len(s))

(* c * n *)
Rep(c, n) == [i \in 1..n |-> c]

(* the least position in i..n at which P holds, n+1 if there is none *)
First(i, n, P(_)) ==
    IF \E k \in i..n : P(k)
    THEN CHOOSE k \in i..n : P(k) /\ \A j \in i..(k - 1) : ~P(j)
    ELSE n + 1

(* the greatest position in i..n at which P holds, i-1 if there is none *)
Last(i, n, P(_)) ==
    IF \E k \in i..n : P(k)
    THEN CHOOSE k \in i..n : P(k) /\ \A j \in (k + 1)..n : ~P(j)
    ELSE i - 1

(* index of the first atom of s at or after position i that lies in set S; Len(s)+1 if none *)
FindFrom(s, i, S) == First(i, Len(s), LAMBDA k : s[k] \in S)

(* index one past the maximal run of atoms of S that starts at position i *)
RunEnd(s, i, S) == First(i, Len(s), LAMBDA k : s[k] \notin S)

(* str.lstrip() *)
LStrip(s) == Drop(s, RunEnd(s, 1, Whitespace) - 1)

(* str.rstrip() *)
RStrip(s) == Take(s, Last(1, Len(s), LAMBDA k : s[k] \notin Whitespace))

(* str.strip() *)
Strip(s) == RStrip(LStrip(s))

(* str.split(sep) for a one-character separator: every separator splits *)
RECURSIVE SplitChar(_, _)
SplitChar(s, sep) ==
    LET i == FindFrom(s, 1, {sep})
    IN  IF i > Len(s) THEN <<s>>
        ELSE <<SubSeq(s, 1, i - 1)>> \o SplitChar(Drop(s, i), sep)

(* re.split(r'[S]+', s): every maximal run of separators splits *)
RECURSIVE ReSplitRuns(_, _)
ReSplitRuns(s, S) ==
    LET i == FindFrom(s, 1, S)
    IN  IF i > Len(s) THEN <<s>>
        ELSE <<SubSeq(s, 1, i - 1)>> \o ReSplitRuns(Drop(s, RunEnd(s, i, S) - 1), S)

(* str.split(): split on runs of whitespace, no empty pieces *)
RECURSIVE SplitWords(_)
SplitWords(s) ==
    LET t == LStrip(s)
        j == FindFrom(t, 1, Whitespace)
    IN  IF t = <<>> THEN <<>>
        ELSE <<SubSeq(t, 1, j - 1)>> \o SplitWords(Drop(t, j - 1))

(* sep.join(parts) *)
RECURSIVE Join(_, _)
Join(parts, sep) ==
    IF parts = <<>> THEN <<>>
    ELSE IF Len(parts) = 1 THEN parts[1]
    ELSE parts[1] \o sep \o Join(Tail(parts), sep)

(* [line.strip() for line in lines if line.strip()] *)
RECURSIVE StripNonEmpty(_)
StripNonEmpty(lines) ==
    IF lines = <<>> THEN <<>>
    ELSE IF Strip(Head(lines)) = <<>> THEN StripNonEmpty(Tail(lines))
    ELSE <<Strip(Head(lines))>> \o StripNonEmpty(Tail(lines))

(***************************************************************************)
(* BaseSummarizer (summarizers/base.py).  content is an ArticleContent:    *)
(* a record [title, content, url].                                         *)
(***************************************************************************)
(* a padding loop that goes by the number of lines it has inserted *)
PadLineCountByPadCount(lines, content) ==
    Take(lines \o Take(<< <<"Article:", " ">> \o content.title,
                          <<"Content not available for detailed summarization.">>,
                          <<"URL:", " ">> \o content.url >>,
                       SUMMARY_LINES - Min(Len(lines), SUMMARY_LINES)),
         Len(lines) + SUMMARY_LINES)

(* the padding loop of _ensure_line_count, base.py:55-67 *)
RECURSIVE PadLineCount(_, _)
PadLineCount(lines, content) ==
    IF Len(lines) >= SUMMARY_LINES THEN lines
    ELSE IF Len(lines) = 0
        THEN PadLineCount(Append(lines, <<"Article:", " ">> \o content.title), content)
    ELSE IF Len(lines) = 1
        THEN PadLineCount(Append(lines, <<"Content not available for detailed summarization.">>), content)
    ELSE PadLineCount(Append(lines, <<"URL:", " ">> \o content.url), content)

(* a line-count enforcer that cuts one line short *)
EnsureLineCountShort(lines0, content) ==
    LET lines == StripNonEmpty(lines0)
    IN  IF Len(lines) > SUMMARY_LINES THEN Take(lines, SUMMARY_LINES - 1)
        ELSE Take(PadLineCount(lines, content), SUMMARY_LINES - 1)

EnsureLineCount(lines0, content) ==
    LET lines == StripNonEmpty(lines0)
    IN  IF Len(lines) > SUMMARY_LINES THEN Take(lines, SUMMARY_LINES)
        ELSE Take(PadLineCount(lines, content), SUMMARY_LINES)

FormatNoContentSummary(content) ==
    LET url_display == IF Len(content.url) > URL_DISPLAY_LIMIT
                       THEN Take(content.url, URL_DISPLAY_LIMIT) \o <<"...">>
                       ELSE content.url
    IN  << <<"Title:", " ">> \o content.title,
           <<"Content not available for summarization.">>,
           IF url_display # <<>> THEN <<"URL:", " ">> \o url_display
                                 ELSE <<"No URL available">> >>

(***************************************************************************)
(* BasicSummarizer (summarizers/basic.py).                                 *)
(***************************************************************************)
(* a sentence filter that keeps a fragment of exactly the minimum length *)
RECURSIVE KeepSentencesAtLeast(_)
KeepSentencesAtLeast(frags) ==
    IF frags = <<>> THEN <<>>
    ELSE IF Len(Strip(Head(frags))) >= MIN_SENTENCE_LENGTH
        THEN <<Strip(Head(frags))>> \o KeepSentencesAtLeast(Tail(frags))
    ELSE KeepSentencesAtLeast(Tail(frags))

(* [s.strip() for s in sentences if len(s.strip()) > MIN_SENTENCE_LENGTH] *)
RECURSIVE KeepSentences(_)
KeepSentences(frags) ==
    IF frags = <<>> THEN <<>>
    ELSE IF Len(Strip(Head(frags))) > MIN_SENTENCE_LENGTH
        THEN <<Strip(Head(frags))>> \o KeepSentences(Tail(frags))
    ELSE KeepSentences(Tail(frags))

ExtractSentences(text) == KeepSentences(ReSplitRuns(text, SentenceEnd))

(* basic.py:47-51 and 59-63: cut a sentence to MAX_LINE_LENGTH plus "..." *)
TruncateSentence(sentence) ==
    IF Len(sentence) > MAX_LINE_LENGTH
    THEN Take(sentence, MAX_LINE_LENGTH) \o <<"...">>
    ELSE sentence

CreateSummaryLines(title, sentences, url) ==
    << <<"Article:", " ">> \o title,
       IF Len(sentences) > 0 THEN TruncateSentence(sentences[1])
                             ELSE <<"No content available.">>,
       IF Len(sentences) > 1 THEN TruncateSentence(sentences[2])
                             ELSE <<"URL:", " ">> \o url >>

BasicSummarizer_summarize(content) ==
    IF content.content = <<>> THEN FormatNoContentSummary(content)
    ELSE EnsureLineCount(
            CreateSummaryLines(content.title, ExtractSentences(content.content), content.url),
            content)

(***************************************************************************)
(* Plain-response parsing of the model-backed summarizers.                 *)
(***************************************************************************)
(* the padding loop of OllamaSummarizer._parse_summary_response, ollama.py:125-131 *)
(* a pad loop that counts the lines it has appended, not the lines it has *)
OllamaPadLinesByPadCount(lines) ==
    IF Len(lines) >= 3 THEN lines
    ELSE IF Len(lines) = 2
        THEN Append(lines, <<"Additional details available in full article.">>)
    ELSE Take(lines \o << <<"Additional details available in full article.">>,
                          <<"See source for more information.">>,
                          <<"See source for more information.">> >>, 3)

RECURSIVE OllamaPadLines(_)
OllamaPadLines(lines) ==
    IF Len(lines) >= 3 THEN lines
    ELSE IF Len(lines) = 1
        THEN OllamaPadLines(Append(lines, <<"Additional details available in full article.">>))
    ELSE OllamaPadLines(Append(lines, <<"See source for more information.">>))

(* a parser that returns a short response unpadded *)
OllamaParseNoPad(response_text) ==
    LET lines == StripNonEmpty(SplitChar(response_text, "\n"))
    IN  IF Len(lines) >= 3 THEN Take(lines, 3) ELSE lines

(* a parser that keeps the last three lines of a long response *)
OllamaParseLast(response_text) ==
    LET lines == StripNonEmpty(SplitChar(response_text, "\n"))
    IN  IF Len(lines) >= 3 THEN Drop(lines, Len(lines) - 3)
        ELSE IF Len(lines) > 0 THEN Take(OllamaPadLines(lines), 3)
        ELSE <<>>

OllamaParseSummaryResponse(response_text) ==
    LET lines == StripNonEmpty(SplitChar(response_text, "\n"))
    IN  IF Len(lines) >= 3 THEN Take(lines, 3)
        ELSE IF Len(lines) > 0 THEN Take(OllamaPadLines(lines), 3)
        ELSE <<>>

(* the padding loop of LLMAPISummarizer._parse_summary_response, llmapi.py:134-140 *)
(* a pad loop that appends one placeholder and stops *)
LLMAPIPadLinesOnce(lines) ==
    IF Len(lines) >= 3 THEN lines
    ELSE IF Len(lines) = 1
        THEN Append(lines, <<"Additional context available in source article.">>)
    ELSE Append(lines, <<"Full details available at source URL.">>)

RECURSIVE LLMAPIPadLines(_)
LLMAPIPadLines(lines) ==
    IF Len(lines) >= 3 THEN lines
    ELSE IF Len(lines) = 1
        THEN LLMAPIPadLines(Append(lines, <<"Additional context available in source article.">>))
    ELSE LLMAPIPadLines(Append(lines, <<"Full details available at source URL.">>))

LLMAPIParseSummaryResponse(response_text) ==
    LET lines == StripNonEmpty(SplitChar(response_text, "\n"))
    IN  IF Len(lines) >= 3 THEN Take(lines, 3)
        ELSE IF Len(lines) > 0 THEN Take(LLMAPIPadLines(lines), 3)
        ELSE <<>>

(***************************************************************************)
(* Regular expressions of _parse_enhanced_summary_response.                *)
(* Positions are 1-based indices into the text; Len+1 is the end.          *)
(***************************************************************************)
(* the lookahead \n[A-Z_]+: succeeds at position q *)
AtCapsLabel(s, q) ==
    /\ q <= Len(s)
    /\ s[q] = "\n"
    /\ LET e == RunEnd(s, q + 1, UpperChars)
       IN  /\ e <= Len(s)
           /\ \/ s[e] \in CapsLabelAtoms
              \/ e > q + 1 /\ s[e] = ":"

(* the lookahead \n\d+\. succeeds at position q *)
AtNumbered(s, q) ==
    /\ q < Len(s)
    /\ s[q] = "\n"
    /\ s[q + 1] \in Digits
    /\ LET e == RunEnd(s, q + 1, Digits)
       IN  e <= Len(s) /\ s[e] = "."

(* $ without re.MULTILINE: the end, or just before a final newline *)
AtEnd(s, q) ==
    \/ q = Len(s) + 1
    \/ q = Len(s) /\ s[q] = "\n"

(* index of the last newline in s[from..to-1], 0 if there is none *)
LastNewline(s, from, to) ==
    IF \E k \in from..(to - 1) : s[k] = "\n"
    THEN Last(from, to - 1, LAMBDA k : s[k] = "\n")
    ELSE 0

(* LABEL:\s*\n can be matched with LABEL: at position i *)
LabelAt(s, i, label) ==
    /\ i <= Len(s)
    /\ s[i] = label
    /\ LastNewline(s, i + 1, RunEnd(s, i + 1, Whitespace)) # 0

(* the leftmost position at or after i where LABEL:\s*\n matches, 0 if none *)
FindLabel(s, i, label) ==
    LET p == First(i, Len(s), LAMBDA k : LabelAt(s, k, label))
    IN  IF p > Len(s) THEN 0 ELSE p

(* end of the lazy group (.*?) that starts at q, for the section lookahead *)
SectionEnd(s, q) ==
    First(q, Len(s) + 1, LAMBDA k : AtCapsLabel(s, k) \/ AtEnd(s, k))

(* re.search(r'LABEL:\s*\n(.*?)(?=\n[A-Z_]+:|$)', s, re.DOTALL):             *)
(* [found, text] with text = group(1)                                      *)
SearchSection(s, label) ==
    LET i == FindLabel(s, 1, label)
    IN  IF i = 0 THEN [found |-> FALSE, text |-> <<>>]
        ELSE LET start == LastNewline(s, i + 1, RunEnd(s, i + 1, Whitespace)) + 1
             IN  [found |-> TRUE, text |-> SubSeq(s, start, SectionEnd(s, start) - 1)]

(* \d+\. can be matched starting at position p *)
NumberAt(s, p) ==
    /\ p <= Len(s)
    /\ s[p] \in Digits
    /\ LET e == RunEnd(s, p, Digits)
       IN  e <= Len(s) /\ s[e] = "."

(* the leftmost position at or after p where \d+\. matches, 0 if none *)
FindNumber(s, p) ==
    LET q == First(p, Len(s), LAMBDA k : NumberAt(s, k))
    IN  IF q > Len(s) THEN 0 ELSE q

(* end of the lazy group (.*?) that starts at q, for the item lookahead *)
ItemEnd(s, q) ==
    First(q, Len(s) + 1, LAMBDA k : AtNumbered(s, k) \/ AtCapsLabel(s, k) \/ AtEnd(s, k))

(* re.findall(r'\d+\.\s*(.*?)(?=\n\d+\.|\n[A-Z_]+:|$)', s, re.DOTALL), scanning from pos *)
RECURSIVE FindAllItems(_, _)
FindAllItems(s, pos) ==
    LET p == FindNumber(s, pos)
    IN  IF p = 0 THEN <<>>
        ELSE LET start == RunEnd(s, RunEnd(s, p, Digits) + 1, Whitespace)
                 end   == ItemEnd(s, start)
             IN  <<SubSeq(s, start, end - 1)>> \o FindAllItems(s, end)

(* [x.strip() for x in items] *)
StripAll(items) == [i \in 1..Len(items) |-> Strip(items[i])]

(* a tail padding that appends a single filler *)
PadTailOnce(items, count, filler) ==
    IF Len(items) >= count THEN items
    ELSE Append(items, filler)

(* while len(items) < count: items.append(filler) *)
PadTail(items, count, filler) ==
    IF Len(items) >= count THEN items
    ELSE items \o Rep(filler, count - Len(items))

(* a list parser that does not pad a short list *)
ParseNumberedSectionNoPad(response_text, label, count, filler, default) ==
    LET m == SearchSection(response_text, label)
        items == FindAllItems(Strip(m.text), 1)
    IN  IF m.found /\ items # <<>> THEN StripAll(Take(items, count))
        ELSE Rep(default, count)

(* the KEY_POINTS / RELATED_LINKS blocks, ollama.py:245-284 *)
ParseNumberedSection(response_text, label, count, filler, default) ==
    LET m == SearchSection(response_text, label)
        items == FindAllItems(Strip(m.text), 1)
    IN  IF m.found /\ items # <<>>
        THEN PadTail(StripAll(Take(items, count)), count, filler)
        ELSE Rep(default, count)

(* a text parser that leaves an absent section empty *)
ParseTextSectionNoDefault(response_text, label, default) ==
    LET m == SearchSection(response_text, label)
    IN  IF m.found THEN Strip(m.text) ELSE <<>>

(* the ARTICLE_SUMMARY / COMMENT_SUMMARY blocks, ollama.py:227-242 *)
ParseTextSection(response_text, label, default) ==
    LET m == SearchSection(response_text, label)
    IN  IF m.found THEN Strip(m.text) ELSE default

(* a discussion link that does not name the story *)
DiscussionUrlOfFrontPage(story_id) == <<"https://news.ycombinator.com/item?id=">>

(* f"https://news.ycombinator.com/item?id={story_id}" *)
DiscussionUrl(story_id) == <<"https://news.ycombinator.com/item?id=", ToString(story_id)>>

ParseEnhancedSummaryResponse(response_text, content, story_id) ==
    [article_summary |-> ParseTextSection(response_text, "ARTICLE_SUMMARY:",
                            <<"Article summary not available.">>),
     comment_summary |-> ParseTextSection(response_text, "COMMENT_SUMMARY:",
                            <<"Comment summary not available.">>),
     key_points      |-> ParseNumberedSection(response_text, "KEY_POINTS:", KEY_POINTS_COUNT,
                            <<"Additional insights available in full discussion.">>,
                            <<"Key insights not available.">>),
     related_links   |-> ParseNumberedSection(response_text, "RELATED_LINKS:", RELATED_LINKS_COUNT,
                            <<"Explore related topics in the field.">>,
                            <<"Related topic research suggested.">>),
     original_url    |-> content.url,
     hn_discussion_url |-> DiscussionUrl(story_id)]

(* LLMAPISummarizer carries its own copy of the parser, llmapi.py:233-322 *)
LLMAPIParseEnhancedSummaryResponse(response_text, content, story_id) ==
    [article_summary |-> ParseTextSection(response_text, "ARTICLE_SUMMARY:",
                            <<"Article summary not available.">>),
     comment_summary |-> ParseTextSection(response_text, "COMMENT_SUMMARY:",
                            <<"Comment summary not available.">>),
     key_points      |-> ParseNumberedSection(response_text, "KEY_POINTS:", KEY_POINTS_COUNT,
                            <<"Additional insights available in full discussion.">>,
                            <<"Key insights not available.">>),
     related_links   |-> ParseNumberedSection(response_text, "RELATED_LINKS:", RELATED_LINKS_COUNT,
                            <<"Explore related topics in the field.">>,
                            <<"Related topic research suggested.">>),
     original_url    |-> content.url,
     hn_discussion_url |-> DiscussionUrl(story_id)]

(***************************************************************************)
(* The basic-enhanced fallback record (_generate_basic_enhanced_summary).  *)
(* A comment is a record [text, by]; by = <<>> stands for None or "".      *)
(* order is the iteration order that this process's string hashing gives   *)
(* to a set of names: a sequence listing every author name once.           *)
(***************************************************************************)
(* the self.fallback of a model-backed summarizer: BasicSummarizer(config), ollama.py:32 *)
FallbackNoContentOnly(content) == FormatNoContentSummary(content)

Fallback_summarize(content) == BasicSummarizer_summarize(content)

(* [c.by for c in comments[:5] if c.by], as a set *)
CommenterSet(comments) ==
    {comments[i].by : i \in {j \in 1..Min(5, Len(comments)) : comments[j].by # <<>>}}

(* list(set(...)) *)
SetToList(S, order) == SelectSeq(order, LAMBDA a : a \in S)

BasicCommentSummary(comments, order) ==
    IF comments # <<>>
    THEN LET top_commenters == Take(SetToList(CommenterSet(comments), order), 3)
             commenter_text == IF top_commenters # <<>>
                               THEN Join(top_commenters, <<",", " ">>)
                               ELSE <<"community members">>
         IN  <<"Discussion with", " ", ToString(Len(comments)), " ", "comments from", " ">>
             \o commenter_text
             \o <<" ", "covering various perspectives on the topic.">>
    ELSE <<"Limited discussion available for this article.">>

BasicKeyPoints ==
    << <<"Main article discusses the core topic and its implications">>,
       <<"Community discussion provides additional insights and perspectives">>,
       <<"Topic represents current trends and developments in the field">> >>

(* related links seeded with the whole title *)
BasicRelatedLinksWholeTitle(title) ==
    LET topic_words == IF title # <<>> THEN SplitWords(title)
                                       ELSE << <<"this topic">> >>
    IN  << <<"Search for more information about", " ">> \o Join(topic_words, <<" ">>),
           <<"Explore related discussions on Hacker News">>,
           <<"Research current developments in this technology area">> >>

BasicRelatedLinks(title) ==
    LET topic_words == IF title # <<>> THEN Take(SplitWords(title), 3)
                                       ELSE << <<"this topic">> >>
    IN  << <<"Search for more information about", " ">> \o Join(topic_words, <<" ">>),
           <<"Explore related discussions on Hacker News">>,
           <<"Research current developments in this technology area">> >>

GenerateBasicEnhancedSummary(content, comments, story_id, order) ==
    LET basic_summary == Fallback_summarize(content)
    IN  [article_summary |-> IF Len(basic_summary) >= 2
                             THEN Join(Take(basic_summary, 2), <<" ">>)
                             ELSE <<"Article content summarized.">>,
         comment_summary |-> BasicCommentSummary(comments, order),
         key_points      |-> BasicKeyPoints,
         related_links   |-> BasicRelatedLinks(content.title),
         original_url    |-> content.url,
         hn_discussion_url |-> DiscussionUrl(story_id)]

(* LLMAPISummarizer carries its own copy of the fallback record, llmapi.py:324-368 *)
LLMAPIGenerateBasicEnhancedSummary(content, comments, story_id, order) ==
    LET basic_summary == Fallback_summarize(content)
    IN  [article_summary |-> IF Len(basic_summary) >= 2
                             THEN Join(Take(basic_summary, 2), <<" ">>)
                             ELSE <<"Article content summarized.">>,
         comment_summary |-> BasicCommentSummary(comments, order),
         key_points      |-> BasicKeyPoints,
         related_links   |-> BasicRelatedLinks(content.title),
         original_url    |-> content.url,
         hn_discussion_url |-> DiscussionUrl(story_id)]

(***************************************************************************)
(* Error messages of the model-backed summarizers.  cause is str(e).       *)
(***************************************************************************)
FallbackHint == "Use --fallback to enable basic mode fallback."

(* an error message that forgets the remedy *)
OllamaSummarizeErrorNoHint(cause) ==
    <<"Ollama", " ", "summarization failed:", " ">> \o cause

(* ollama.py:49 *)
OllamaSummarizeError(cause) ==
    <<"Ollama", " ", "summarization failed:", " ">> \o cause \o <<".", " ", FallbackHint>>

(* ollama.py:61 *)
OllamaEnhancedError(cause) ==
    <<"Enhanced", " ", "Ollama", " ", "summarization failed:", " ">> \o cause
    \o <<".", " ", FallbackHint>>

(* ollama.py:101 *)
OllamaEmptyResponseError == <<"Ollama", " ", "returned empty response.", " ", FallbackHint>>

(* ollama.py:178 *)
OllamaEmptyEnhancedError ==
    <<"Ollama", " ", "returned empty enhanced response.", " ", FallbackHint>>

(* an error message that does not say which backend failed *)
LLMAPISummarizeErrorNoName(cause) ==
    <<"Summarization failed:", " ">> \o cause \o <<".", " ", FallbackHint>>

(* llmapi.py:53 *)
LLMAPISummarizeError(cause) ==
    <<"LLM API", " ", "summarization failed:", " ">> \o cause \o <<".", " ", FallbackHint>>

(* llmapi.py:65 *)
LLMAPIEnhancedError(cause) ==
    <<"Enhanced", " ", "LLM API", " ", "summarization failed:", " ">> \o cause
    \o <<".", " ", FallbackHint>>

(* llmapi.py:75 and 155 *)
MissingKeyError == <<"OPENAI_API_KEY environment variable not set.", " ", FallbackHint>>

(* llmapi.py:110 *)
LLMAPIEmptyResponseError == <<"LLM API", " ", "returned empty response.", " ", FallbackHint>>

(* llmapi.py:200 *)
LLMAPIEmptyEnhancedError ==
    <<"LLM API", " ", "returned empty enhanced response.", " ", FallbackHint>>

(***************************************************************************)
(* What a backend request can do.                                          *)
(***************************************************************************)
(* exceptions raised inside the try block: by requests.post (connection    *)
(* error, timeout), by raise_for_status (non-success status), by           *)
(* response.json() (body is not JSON), and by the envelope access (a field *)
(* of the wrong type)                                                      *)
BackendExceptions ==
    {"ConnectionError", "Timeout", "HTTPError", "JSONDecodeError", "TypeError"}

(* a decoded response envelope: present says whether the text field        *)
(* ("response", resp. choices[0].message.content) exists                   *)
Envelope(present, text) == [present |-> present, text |-> text]

NoOutcome == [kind |-> "none", exc |-> "", present |-> FALSE, text |-> <<>>]

Raised(e) == [kind |-> "raised", exc |-> e, present |-> FALSE, text |-> <<>>]

Responded(env) == [kind |-> "responded", exc |-> "", present |-> env.present, text |-> env.text]

NoCredential == [kind |-> "no_credential", exc |-> "", present |-> FALSE, text |-> <<>>]

(***************************************************************************)
(* The legacy HackerNewsSummarizer (summarizer.py): generate_summary and   *)
(* its three generators.  mode is self.mode, a string atom; key says       *)
(* whether OPENAI_API_KEY is set; oc is what the backend request does.     *)
(***************************************************************************)
(* [s.strip() for s in sentences if len(s.strip()) > 20], summarizer.py:121 *)
RECURSIVE LegacyKeepSentences(_)
LegacyKeepSentences(frags) ==
    IF frags = <<>> THEN <<>>
    ELSE IF Len(Strip(Head(frags))) > 20
        THEN <<Strip(Head(frags))>> \o LegacyKeepSentences(Tail(frags))
    ELSE LegacyKeepSentences(Tail(frags))

(* _generate_basic_summary, summarizer.py:109-138 *)
LegacyBasicSummary(title, content, url) ==
    IF content = <<>>
    THEN << <<"Title:", " ">> \o title,
            <<"Content not available for summarization.">>,
            IF Len(url) > 80 THEN <<"URL:", " ">> \o Take(url, 80) \o <<"...">>
                             ELSE <<"URL:", " ">> \o url >>
    ELSE LET sentences == LegacyKeepSentences(ReSplitRuns(content, SentenceEnd))
         IN  << <<"Article:", " ">> \o title,
                IF Len(sentences) > 0 /\ Len(sentences[1]) > 120
                    THEN Take(sentences[1], 120) \o <<"...">>
                ELSE IF Len(sentences) > 0 THEN sentences[1]
                ELSE <<"No content available.">>,
                IF Len(sentences) > 1 /\ Len(sentences[2]) > 120
                    THEN Take(sentences[2], 120) \o <<"...">>
                ELSE IF Len(sentences) > 1 THEN sentences[2]
                ELSE <<"URL:", " ">> \o url >>

(* the padding loop of the legacy generators, summarizer.py:182-187 and 251-256 *)
RECURSIVE LegacyPadLines(_, _, _)
LegacyPadLines(lines, title, url) ==
    IF Len(lines) >= 3 THEN lines
    ELSE IF Len(lines) = 1
        THEN LegacyPadLines(Append(lines, <<"Source:", " ">> \o title), title, url)
    ELSE LegacyPadLines(Append(lines, <<"URL:", " ">> \o url), title, url)

(* summarizer.py:173-188: the lines of a response text, <<>> if it has none *)
LegacyParseLines(summary_text, title, url) ==
    LET lines == StripNonEmpty(SplitChar(summary_text, "\n"))
    IN  IF Len(lines) >= 3 THEN Take(lines, 3)
        ELSE IF Len(lines) > 0 THEN Take(LegacyPadLines(lines, title, url), 3)
        ELSE <<>>

(* a generator whose failed request leaves the story without a summary *)
LegacyOllamaSummaryNoFallback(title, content, url, oc) ==
    IF content = <<>> THEN LegacyBasicSummary(title, content, url)
    ELSE IF oc.kind # "responded" THEN <<>>
    ELSE LegacyParseLines(Strip(IF oc.present THEN oc.text ELSE <<>>), title, url)

(* _generate_ollama_summary, summarizer.py:140-194 *)
LegacyOllamaSummary(title, content, url, oc) ==
    IF content = <<>> THEN LegacyBasicSummary(title, content, url)
    ELSE IF oc.kind # "responded" THEN LegacyBasicSummary(title, content, url)
    ELSE LET lines == LegacyParseLines(Strip(IF oc.present THEN oc.text ELSE <<>>), title, url)
         IN  IF lines # <<>> THEN lines ELSE LegacyBasicSummary(title, content, url)

(* _generate_llmapi_summary, summarizer.py:196-263 *)
LegacyLLMAPISummary(title, content, url, key, oc) ==
    IF content = <<>> THEN LegacyBasicSummary(title, content, url)
    ELSE IF ~key THEN LegacyBasicSummary(title, content, url)
    ELSE IF oc.kind # "responded" \/ ~oc.present THEN LegacyBasicSummary(title, content, url)
    ELSE LET lines == LegacyParseLines(Strip(oc.text), title, url)
         IN  IF lines # <<>> THEN lines ELSE LegacyBasicSummary(title, content, url)

(* a dispatch that knows no default generator *)
LegacyRouteStrict(mode) ==
    IF mode \in {"basic", "ollama", "llmapi"} THEN mode ELSE "ollama"

(* the dispatch of generate_summary, summarizer.py:100-107 *)
LegacyRoute(mode) ==
    IF mode = "basic" THEN "basic"
    ELSE IF mode = "ollama" THEN "ollama"
    ELSE IF mode = "llmapi" THEN "llmapi"
    ELSE "basic"

(* generate_summary issues a backend request *)
LegacyNeedsRequest(mode, content, key) ==
    /\ content # <<>>
    /\ \/ LegacyRoute(mode) = "ollama"
       \/ LegacyRoute(mode) = "llmapi" /\ key

(* generate_summary reads OPENAI_API_KEY, summarizer.py:207 *)
LegacyReadsKey(mode, content) == content # <<>> /\ LegacyRoute(mode) = "llmapi"

(* generate_summary, summarizer.py:96-107 *)
LegacyGenerate(mode, title, content, url, key, oc) ==
    IF LegacyRoute(mode) = "ollama" THEN LegacyOllamaSummary(title, content, url, oc)
    ELSE IF LegacyRoute(mode) = "llmapi" THEN LegacyLLMAPISummary(title, content, url, key, oc)
    ELSE LegacyBasicSummary(title, content, url)

(***************************************************************************)
(* HackerNewsAPI.get_top_comments (fetchers.py).  A story is what the      *)
(* caller holds: descendants (0 for None), and whether someone has set a   *)
(* kids attribute on it, which the HNStory dataclass does not declare.     *)
(* answers[id] is what get_comment(id) returns.                            *)
(***************************************************************************)
(* the fields of the HNStory dataclass, models.py:17-27 *)
HNStoryFields == {"id", "title", "url", "score", "by", "time", "descendants", "type"}

(* get_comment returned None: request error, empty item, or not a comment *)
NoComment == [none |-> TRUE, text |-> <<>>, by |-> ""]

HNComment(text, by) == [none |-> FALSE, text |-> text, by |-> by]

(* if comment and comment.text.strip() *)
KeptComment(comment) == ~comment.none /\ Strip(comment.text) # <<>>

(* fetchers.py:128-132: the loop over comment_ids[:max_comments] *)
FetchComments(comment_ids, answers, max_comments) ==
    LET ids == Take(comment_ids, max_comments)
    IN  SelectSeq([k \in 1..Len(ids) |-> answers[ids[k]]], KeptComment)

(* fetchers.py:115-134.  get_story_details builds an HNStory, which has no *)
(* kids in its __dict__, so the first branch returns the empty list        *)
GetTopCommentsResult(story, details_found, answers, max_comments) ==
    IF story.descendants = 0 \/ ~story.has_kids
    THEN IF ~details_found \/ "kids" \notin HNStoryFields THEN <<>>
         ELSE FetchComments(story.kids, answers, max_comments)
    ELSE FetchComments(story.kids, answers, max_comments)

(***************************************************************************)
(* State.                                                                  *)
(***************************************************************************)
VARIABLES
    allow_fallback,  \* config.allow_fallback of the summarizer instances
    api_key,         \* TRUE iff os.getenv("OPENAI_API_KEY") is non-empty
    hash_order,      \* this process's iteration order of a set of author names
    pc,              \* "idle", "awaiting" (request in flight), "returned", "raised"
    call,            \* the call in progress: backend, op and arguments
    outcome,         \* what the backend request did
    result,          \* the list returned by summarize
    enhanced,        \* <<record>> returned by enhanced_summarize, <<>> if none
    error,           \* the message of the error raised to the caller
    requests,        \* backend requests issued by this call
    cred_reads,      \* reads of OPENAI_API_KEY by this call
    flag_evals,      \* evaluations of config.allow_fallback by this call
    fallback_calls,  \* calls of self.fallback.summarize by this call
    memo,            \* what the caller kept of one earlier call of this process
    run,             \* a summarize_articles call of the legacy HackerNewsSummarizer
    cli              \* an invocation of the command line (cli.main)

vars == <<allow_fallback, api_key, hash_order, pc, call, outcome, result, enhanced,
          error, requests, cred_reads, flag_evals, fallback_calls, memo, run, cli>>

(* what belongs to the caller and no summarizer method touches *)
caller_vars == <<memo, run, cli>>

config_vars == <<allow_fallback, api_key, hash_order>>

NoContent == [title |-> <<>>, content |-> <<>>, url |-> <<>>]

NoCall == [backend |-> "none", op |-> "none", content |-> NoContent,
           comments |-> <<>>, story_id |-> 0]

SummarizeCall(backend, content) ==
    [backend |-> backend, op |-> "summarize", content |-> content,
     comments |-> <<>>, story_id |-> 0]

EnhancedCall(backend, content, comments, story_id) ==
    [backend |-> backend, op |-> "enhanced_summarize", content |-> content,
     comments |-> comments, story_id |-> story_id]

(* a direct call of BaseSummarizer._ensure_line_count(lines, content) *)
EnsureCall(lines, content) ==
    [backend |-> "base", op |-> "_ensure_line_count", content |-> content,
     comments |-> <<>>, story_id |-> 0, lines |-> lines]

(* a call of HackerNewsAPI.get_top_comments(story, max_comments); item_kids *)
(* is the kids list of the story's item upstream                           *)
TopCommentsCall(story, item_kids, details_found, answers, max_comments) ==
    [backend |-> "hn_api", op |-> "get_top_comments", content |-> NoContent,
     comments |-> <<>>, story_id |-> 0, story |-> story, item_kids |-> item_kids,
     details_found |-> details_found, answers |-> answers,
     max_comments |-> max_comments]

(* a story as get_story_details returns it; None is NoStory *)
Story(title, url, score) == [none |-> FALSE, title |-> title, url |-> url, score |-> score]

NoStory == [none |-> TRUE, title |-> <<>>, url |-> <<>>, score |-> 0]

(* no summarize_articles call has been made *)
NoRun == [pc |-> "off", mode |-> "", limit |-> 0, story_ids |-> <<>>, i |-> 0,
          story |-> NoStory, results |-> <<>>, trace |-> <<>>, sleeps |-> 0]

(* the command line has not been invoked *)
NoCli == [pc |-> "off", count_given |-> FALSE, count |-> 0, mode |-> "",
          progress |-> <<>>, calls |-> <<>>, errors |-> <<>>]

(* the caller has kept nothing yet *)
NoMemo == [call |-> NoCall, pc |-> "idle", result |-> <<>>, enhanced |-> <<>>,
           fallback_calls |-> 0]

(***************************************************************************)
(* How a call ends.                                                        *)
(***************************************************************************)
(* return lines *)
Returns(lines) ==
    /\ pc' = "returned"
    /\ result' = lines
    /\ enhanced' = <<>>
    /\ error' = <<>>
    /\ UNCHANGED caller_vars

(* return an EnhancedSummary *)
ReturnsEnhanced(summary) ==
    /\ pc' = "returned"
    /\ result' = <<>>
    /\ enhanced' = <<summary>>
    /\ error' = <<>>
    /\ UNCHANGED caller_vars

(* raise RuntimeError(message) out of the call *)
Raises(message) ==
    /\ pc' = "raised"
    /\ result' = <<>>
    /\ enhanced' = <<>>
    /\ error' = message
    /\ UNCHANGED caller_vars

(* a request that is sent again when the first attempt gets no answer *)
IssuesRequestWithRetry ==
    /\ pc' = "awaiting"
    /\ requests' = requests + 2
    /\ UNCHANGED <<result, enhanced, error>>
    /\ UNCHANGED caller_vars

(* requests.post(...) is issued and the call blocks on it *)
IssuesRequest ==
    /\ pc' = "awaiting"
    /\ requests' = requests + 1
    /\ UNCHANGED <<result, enhanced, error>>
    /\ UNCHANGED caller_vars

(***************************************************************************)
(* BaseSummarizer._ensure_line_count, called on its own                    *)
(***************************************************************************)
EnsureLineCountCall(lines, content) ==
    /\ pc = "idle"
    /\ call' = EnsureCall(lines, content)
    /\ outcome' = NoOutcome
    /\ Returns(EnsureLineCount(lines, content))
    /\ UNCHANGED <<requests, cred_reads, flag_evals, fallback_calls>>
    /\ UNCHANGED config_vars

(***************************************************************************)
(* HackerNewsAPI.get_top_comments                                          *)
(***************************************************************************)
GetTopComments(story, item_kids, details_found, answers, max_comments) ==
    /\ pc = "idle"
    /\ story.kids = IF story.has_kids THEN item_kids ELSE <<>>
    /\ call' = TopCommentsCall(story, item_kids, details_found, answers, max_comments)
    /\ outcome' = NoOutcome
    /\ Returns(GetTopCommentsResult(story, details_found, answers, max_comments))
    /\ UNCHANGED <<requests, cred_reads, flag_evals, fallback_calls>>
    /\ UNCHANGED config_vars

(***************************************************************************)
(* BasicSummarizer.summarize                                               *)
(***************************************************************************)
(* a summarizer that answers differently once its caller has kept a result *)
BasicSummarizeStateful(content) ==
    /\ pc = "idle"
    /\ call' = SummarizeCall("basic", content)
    /\ outcome' = NoOutcome
    /\ IF memo = NoMemo THEN Returns(BasicSummarizer_summarize(content))
                        ELSE Returns(FormatNoContentSummary(content))
    /\ UNCHANGED <<requests, cred_reads, flag_evals, fallback_calls>>
    /\ UNCHANGED config_vars

BasicSummarize(content) ==
    /\ pc = "idle"
    /\ call' = SummarizeCall("basic", content)
    /\ outcome' = NoOutcome
    /\ Returns(BasicSummarizer_summarize(content))
    /\ UNCHANGED <<requests, cred_reads, flag_evals, fallback_calls>>
    /\ UNCHANGED config_vars

(***************************************************************************)
(* OllamaSummarizer.summarize                                              *)
(***************************************************************************)
(* a summarize that forgets the no-content check *)
OllamaSummarizeNoCheck(content) ==
    /\ pc = "idle"
    /\ call' = SummarizeCall("ollama", content)
    /\ outcome' = NoOutcome
    /\ IssuesRequest
    /\ UNCHANGED <<cred_reads, flag_evals, fallback_calls>>
    /\ UNCHANGED config_vars

(* ollama.py:36-39 and 64-82: the no-content check, then the request *)
OllamaSummarize(content) ==
    /\ pc = "idle"
    /\ call' = SummarizeCall("ollama", content)
    /\ outcome' = NoOutcome
    /\ IF content.content = <<>>
       THEN Returns(FormatNoContentSummary(content)) /\ UNCHANGED requests
       ELSE IssuesRequest
    /\ UNCHANGED <<cred_reads, flag_evals, fallback_calls>>
    /\ UNCHANGED config_vars

(* an exception handler that ignores the fallback permission *)
OllamaSummarizeRaisesAlways(e) ==
    /\ pc = "awaiting"
    /\ call.backend = "ollama" /\ call.op = "summarize"
    /\ outcome' = Raised(e)
    /\ flag_evals' = flag_evals + 1
    /\ Raises(OllamaSummarizeError(<<e>>)) /\ UNCHANGED fallback_calls
    /\ UNCHANGED <<call, requests, cred_reads>>
    /\ UNCHANGED config_vars

(* ollama.py:43-49: the request, raise_for_status or json() raised e *)
OllamaSummarizeRaises(e) ==
    /\ pc = "awaiting"
    /\ call.backend = "ollama" /\ call.op = "summarize"
    /\ outcome' = Raised(e)
    /\ flag_evals' = flag_evals + 1
    /\ IF allow_fallback
       THEN Returns(Fallback_summarize(call.content)) /\ fallback_calls' = fallback_calls + 1
       ELSE Raises(OllamaSummarizeError(<<e>>)) /\ UNCHANGED fallback_calls
    /\ UNCHANGED <<call, requests, cred_reads>>
    /\ UNCHANGED config_vars

(* ollama.py:85-101, then 43-49 when the empty-response error is raised *)
OllamaSummarizeResponds(env) ==
    /\ pc = "awaiting"
    /\ call.backend = "ollama" /\ call.op = "summarize"
    /\ outcome' = Responded(env)
    /\ LET summary_text == Strip(IF env.present THEN env.text ELSE <<>>)
       IN  IF summary_text # <<>>
           THEN /\ Returns(EnsureLineCount(OllamaParseSummaryResponse(summary_text),
                                           call.content))
                /\ UNCHANGED <<flag_evals, fallback_calls>>
           ELSE IF allow_fallback
           THEN /\ Returns(Fallback_summarize(call.content))
                /\ flag_evals' = flag_evals + 1
                /\ fallback_calls' = fallback_calls + 1
           ELSE /\ Raises(OllamaSummarizeError(OllamaEmptyResponseError))
                /\ flag_evals' = flag_evals + 2
                /\ UNCHANGED fallback_calls
    /\ UNCHANGED <<call, requests, cred_reads>>
    /\ UNCHANGED config_vars

(***************************************************************************)
(* OllamaSummarizer.enhanced_summarize                                     *)
(***************************************************************************)
(* an enhanced_summarize that answers an empty body without a request *)
OllamaEnhancedSummarizeShortCircuit(content, comments, story_id) ==
    /\ pc = "idle"
    /\ call' = EnhancedCall("ollama", content, comments, story_id)
    /\ outcome' = NoOutcome
    /\ IF content.content = <<>>
       THEN /\ ReturnsEnhanced(GenerateBasicEnhancedSummary(
                    content, comments, story_id, hash_order))
            /\ UNCHANGED requests
       ELSE IssuesRequest
    /\ UNCHANGED <<cred_reads, flag_evals, fallback_calls>>
    /\ UNCHANGED config_vars

(* ollama.py:51-54 and 138-165: no no-content check; the request *)
OllamaEnhancedSummarize(content, comments, story_id) ==
    /\ pc = "idle"
    /\ call' = EnhancedCall("ollama", content, comments, story_id)
    /\ outcome' = NoOutcome
    /\ IssuesRequest
    /\ UNCHANGED <<cred_reads, flag_evals, fallback_calls>>
    /\ UNCHANGED config_vars

(* ollama.py:55-61 *)
OllamaEnhancedRaises(e) ==
    /\ pc = "awaiting"
    /\ call.backend = "ollama" /\ call.op = "enhanced_summarize"
    /\ outcome' = Raised(e)
    /\ flag_evals' = flag_evals + 1
    /\ IF allow_fallback
       THEN /\ ReturnsEnhanced(GenerateBasicEnhancedSummary(
                    call.content, call.comments, call.story_id, hash_order))
            /\ fallback_calls' = fallback_calls + 1
       ELSE Raises(OllamaEnhancedError(<<e>>)) /\ UNCHANGED fallback_calls
    /\ UNCHANGED <<call, requests, cred_reads>>
    /\ UNCHANGED config_vars

(* ollama.py:168-178, then 55-61 when the empty-response error is raised *)
OllamaEnhancedResponds(env) ==
    /\ pc = "awaiting"
    /\ call.backend = "ollama" /\ call.op = "enhanced_summarize"
    /\ outcome' = Responded(env)
    /\ LET summary_text == Strip(IF env.present THEN env.text ELSE <<>>)
       IN  IF summary_text # <<>>
           THEN /\ ReturnsEnhanced(ParseEnhancedSummaryResponse(
                        summary_text, call.content, call.story_id))
                /\ UNCHANGED <<flag_evals, fallback_calls>>
           ELSE IF allow_fallback
           THEN /\ ReturnsEnhanced(GenerateBasicEnhancedSummary(
                        call.content, call.comments, call.story_id, hash_order))
                /\ flag_evals' = flag_evals + 1
                /\ fallback_calls' = fallback_calls + 1
           ELSE /\ Raises(OllamaEnhancedError(OllamaEmptyEnhancedError))
                /\ flag_evals' = flag_evals + 2
                /\ UNCHANGED fallback_calls
    /\ UNCHANGED <<call, requests, cred_reads>>
    /\ UNCHANGED config_vars

(***************************************************************************)
(* LLMAPISummarizer.summarize                                              *)
(***************************************************************************)
(* llmapi.py:40-43 and 67-96: the no-content check, the credential, then   *)
(* the request; llmapi.py:47-53 when the missing-key error is raised       *)
LLMAPISummarize(content) ==
    /\ pc = "idle"
    /\ call' = SummarizeCall("llmapi", content)
    /\ IF content.content = <<>>
       THEN /\ Returns(FormatNoContentSummary(content))
            /\ outcome' = NoOutcome
            /\ UNCHANGED <<requests, cred_reads, flag_evals, fallback_calls>>
       ELSE IF ~api_key
       THEN /\ cred_reads' = cred_reads + 1
            /\ outcome' = NoCredential
            /\ UNCHANGED requests
            /\ IF allow_fallback
               THEN /\ Returns(Fallback_summarize(content))
                    /\ flag_evals' = flag_evals + 1
                    /\ fallback_calls' = fallback_calls + 1
               ELSE /\ Raises(LLMAPISummarizeError(MissingKeyError))
                    /\ flag_evals' = flag_evals + 2
                    /\ UNCHANGED fallback_calls
       ELSE /\ cred_reads' = cred_reads + 1
            /\ outcome' = NoOutcome
            /\ IssuesRequest
            /\ UNCHANGED <<flag_evals, fallback_calls>>
    /\ UNCHANGED config_vars

(* llmapi.py:47-53 *)
LLMAPISummarizeRaises(e) ==
    /\ pc = "awaiting"
    /\ call.backend = "llmapi" /\ call.op = "summarize"
    /\ outcome' = Raised(e)
    /\ flag_evals' = flag_evals + 1
    /\ IF allow_fallback
       THEN Returns(Fallback_summarize(call.content)) /\ fallback_calls' = fallback_calls + 1
       ELSE Raises(LLMAPISummarizeError(<<e>>)) /\ UNCHANGED fallback_calls
    /\ UNCHANGED <<call, requests, cred_reads>>
    /\ UNCHANGED config_vars

(* llmapi.py:99-110; a missing field makes result[...] raise KeyError,     *)
(* handled by llmapi.py:47-53 like the empty-response error                *)
LLMAPISummarizeResponds(env) ==
    /\ pc = "awaiting"
    /\ call.backend = "llmapi" /\ call.op = "summarize"
    /\ outcome' = Responded(env)
    /\ IF ~env.present
       THEN /\ flag_evals' = flag_evals + 1
            /\ IF allow_fallback
               THEN /\ Returns(Fallback_summarize(call.content))
                    /\ fallback_calls' = fallback_calls + 1
               ELSE /\ Raises(LLMAPISummarizeError(<<"KeyError">>))
                    /\ UNCHANGED fallback_calls
       ELSE LET summary_text == Strip(env.text)
            IN  IF summary_text # <<>>
                THEN /\ Returns(EnsureLineCount(LLMAPIParseSummaryResponse(summary_text),
                                                call.content))
                     /\ UNCHANGED <<flag_evals, fallback_calls>>
                ELSE IF allow_fallback
                THEN /\ Returns(Fallback_summarize(call.content))
                     /\ flag_evals' = flag_evals + 1
                     /\ fallback_calls' = fallback_calls + 1
                ELSE /\ Raises(LLMAPISummarizeError(LLMAPIEmptyResponseError))
                     /\ flag_evals' = flag_evals + 2
                     /\ UNCHANGED fallback_calls
    /\ UNCHANGED <<call, requests, cred_reads>>
    /\ UNCHANGED config_vars

(***************************************************************************)
(* LLMAPISummarizer.enhanced_summarize                                     *)
(***************************************************************************)
(* llmapi.py:55-58 and 147-187: the credential, then the request;          *)
(* llmapi.py:59-65 when the missing-key error is raised                    *)
LLMAPIEnhancedSummarize(content, comments, story_id) ==
    /\ pc = "idle"
    /\ call' = EnhancedCall("llmapi", content, comments, story_id)
    /\ cred_reads' = cred_reads + 1
    /\ IF ~api_key
       THEN /\ outcome' = NoCredential
            /\ UNCHANGED requests
            /\ IF allow_fallback
               THEN /\ ReturnsEnhanced(LLMAPIGenerateBasicEnhancedSummary(
                            content, comments, story_id, hash_order))
                    /\ flag_evals' = flag_evals + 1
                    /\ fallback_calls' = fallback_calls + 1
               ELSE /\ Raises(LLMAPIEnhancedError(MissingKeyError))
                    /\ flag_evals' = flag_evals + 2
                    /\ UNCHANGED fallback_calls
       ELSE /\ outcome' = NoOutcome
            /\ IssuesRequest
            /\ UNCHANGED <<flag_evals, fallback_calls>>
    /\ UNCHANGED config_vars

(* llmapi.py:59-65 *)
LLMAPIEnhancedRaises(e) ==
    /\ pc = "awaiting"
    /\ call.backend = "llmapi" /\ call.op = "enhanced_summarize"
    /\ outcome' = Raised(e)
    /\ flag_evals' = flag_evals + 1
    /\ IF allow_fallback
       THEN /\ ReturnsEnhanced(LLMAPIGenerateBasicEnhancedSummary(
                    call.content, call.comments, call.story_id, hash_order))
            /\ fallback_calls' = fallback_calls + 1
       ELSE Raises(LLMAPIEnhancedError(<<e>>)) /\ UNCHANGED fallback_calls
    /\ UNCHANGED <<call, requests, cred_reads>>
    /\ UNCHANGED config_vars

(* llmapi.py:190-200; a missing field makes result[...] raise KeyError,    *)
(* handled by llmapi.py:59-65 like the empty-response error                *)
LLMAPIEnhancedResponds(env) ==
    /\ pc = "awaiting"
    /\ call.backend = "llmapi" /\ call.op = "enhanced_summarize"
    /\ outcome' = Responded(env)
    /\ IF ~env.present
       THEN /\ flag_evals' = flag_evals + 1
            /\ IF allow_fallback
               THEN /\ ReturnsEnhanced(LLMAPIGenerateBasicEnhancedSummary(
                            call.content, call.comments, call.story_id, hash_order))
                    /\ fallback_calls' = fallback_calls + 1
               ELSE /\ Raises(LLMAPIEnhancedError(<<"KeyError">>))
                    /\ UNCHANGED fallback_calls
       ELSE LET summary_text == Strip(env.text)
            IN  IF summary_text # <<>>
                THEN /\ ReturnsEnhanced(LLMAPIParseEnhancedSummaryResponse(
                             summary_text, call.content, call.story_id))
                     /\ UNCHANGED <<flag_evals, fallback_calls>>
                ELSE IF allow_fallback
                THEN /\ ReturnsEnhanced(LLMAPIGenerateBasicEnhancedSummary(
                             call.content, call.comments, call.story_id, hash_order))
                     /\ flag_evals' = flag_evals + 1
                     /\ fallback_calls' = fallback_calls + 1
                ELSE /\ Raises(LLMAPIEnhancedError(LLMAPIEmptyEnhancedError))
                     /\ flag_evals' = flag_evals + 2
                     /\ UNCHANGED fallback_calls
    /\ UNCHANGED <<call, requests, cred_reads>>
    /\ UNCHANGED config_vars

(***************************************************************************)
(* HackerNewsSummarizer.generate_summary (legacy), called on its own.  The *)
(* backend request, when one is made, blocks inside the call; oc is what   *)
(* it does.                                                                *)
(***************************************************************************)
LegacyGenerateSummary(mode, title, content, url, oc) ==
    /\ pc = "idle"
    /\ IF LegacyNeedsRequest(mode, content, api_key)
       THEN oc.kind \in {"raised", "responded"}
       ELSE oc = NoOutcome
    /\ call' = [backend |-> "legacy", op |-> mode,
                content |-> [title |-> title, content |-> content, url |-> url],
                comments |-> <<>>, story_id |-> 0]
    /\ outcome' = oc
    /\ requests' = IF LegacyNeedsRequest(mode, content, api_key) THEN requests + 1 ELSE requests
    /\ cred_reads' = IF LegacyReadsKey(mode, content) THEN cred_reads + 1 ELSE cred_reads
    /\ Returns(LegacyGenerate(mode, title, content, url, api_key, oc))
    /\ UNCHANGED <<flag_evals, fallback_calls>>
    /\ UNCHANGED config_vars

(***************************************************************************)
(* HackerNewsSummarizer.summarize_articles (legacy), summarizer.py:265-306 *)
(* run.trace is what the loop has done so far, one entry per loop          *)
(* iteration: the id, whether its details were found, the content that was *)
(* extracted, and whether the backend request of its summary failed.       *)
(***************************************************************************)
(* the loop moves on to the next id, or returns results after the last *)
RunAdvances(r) ==
    IF r.i < Len(r.story_ids) THEN [r EXCEPT !.i = r.i + 1, !.pc = "loop", !.story = NoStory]
    ELSE [r EXCEPT !.pc = "done", !.story = NoStory]

(* summarizer.py:265-272: get_top_stories(limit) answers top ([] on a      *)
(* request error); an empty list returns at once                           *)
SummarizeArticles(mode, limit, top) ==
    /\ pc = "idle" /\ run.pc = "off"
    /\ run' = LET ids == Take(top, limit)
                  r == [NoRun EXCEPT !.mode = mode, !.limit = limit, !.story_ids = ids]
              IN  IF ids = <<>> THEN [r EXCEPT !.pc = "done"]
                  ELSE [r EXCEPT !.pc = "loop", !.i = 1]
    /\ UNCHANGED <<pc, call, outcome, result, enhanced, error, requests, cred_reads,
                   flag_evals, fallback_calls, memo, cli>>
    /\ UNCHANGED config_vars

(* a loop that leaves with break where the code says continue *)
GetStoryDetailsBreak(story) ==
    /\ pc = "idle" /\ run.pc = "loop"
    /\ LET id == run.story_ids[run.i]
       IN  run' = IF story.none
                  THEN [run EXCEPT !.pc = "done",
                                   !.trace = Append(@, [id |-> id, found |-> FALSE,
                                                        failed |-> FALSE,
                                                        content |-> <<>>])]
                  ELSE [run EXCEPT !.pc = "story", !.story = story,
                                   !.trace = Append(@, [id |-> id, found |-> TRUE,
                                                        failed |-> FALSE,
                                                        content |-> <<>>])]
    /\ UNCHANGED <<pc, call, outcome, result, enhanced, error, requests, cred_reads,
                   flag_evals, fallback_calls, memo, cli>>
    /\ UNCHANGED config_vars

(* summarizer.py:273-280: get_story_details of the current id; nothing     *)
(* found is skipped with continue                                          *)
GetStoryDetails(story) ==
    /\ pc = "idle" /\ run.pc = "loop"
    /\ LET id == run.story_ids[run.i]
       IN  run' = IF story.none
                  THEN RunAdvances([run EXCEPT !.trace = Append(@,
                            [id |-> id, found |-> FALSE, failed |-> FALSE,
                             content |-> <<>>])])
                  ELSE [run EXCEPT !.pc = "story", !.story = story,
                                   !.trace = Append(@, [id |-> id, found |-> TRUE,
                                                        failed |-> FALSE,
                                                        content |-> <<>>])]
    /\ UNCHANGED <<pc, call, outcome, result, enhanced, error, requests, cred_reads,
                   flag_evals, fallback_calls, memo, cli>>
    /\ UNCHANGED config_vars

(* the backend request of generate_summary did not yield a usable text *)
LegacyRequestFailed(mode, content, key, oc) ==
    \/ LegacyReadsKey(mode, content) /\ ~key
    \/ /\ LegacyNeedsRequest(mode, content, key)
       /\ \/ oc.kind = "raised"
          \/ ~oc.present
          \/ Strip(oc.text) = <<>>

(* summarizer.py:282-301: extract the content (extracted is what the page  *)
(* gives, "" on any error), summarize, append the entry                    *)
SummarizeStory(extracted, oc) ==
    /\ pc = "idle" /\ run.pc = "story"
    /\ LET title == run.story.title
           url == run.story.url
           content == IF url # <<>> THEN extracted ELSE <<>>
           summary_lines == LegacyGenerate(run.mode, title, content, url, api_key, oc)
           entry == [id |-> run.story_ids[run.i], title |-> title, url |-> url,
                     score |-> run.story.score, summary |-> summary_lines]
           n == Len(run.trace)
       IN  /\ IF LegacyNeedsRequest(run.mode, content, api_key)
              THEN oc.kind \in {"raised", "responded"}
              ELSE oc = NoOutcome
           /\ url = <<>> => extracted = <<>>
           /\ run' = [run EXCEPT
                        !.pc = "sleeping",
                        !.results = Append(@, entry),
                        !.trace[n].content = content,
                        !.trace[n].failed = LegacyRequestFailed(run.mode, content, api_key, oc)]
    /\ UNCHANGED <<pc, call, outcome, result, enhanced, error, requests, cred_reads,
                   flag_evals, fallback_calls, memo, cli>>
    /\ UNCHANGED config_vars

(* a delay that is only taken when another story follows *)
PacingDelayBetweenStories ==
    /\ pc = "idle" /\ run.pc = "sleeping"
    /\ run' = RunAdvances([run EXCEPT
                 !.sleeps = IF run.i < Len(run.story_ids) THEN @ + 1 ELSE @])
    /\ UNCHANGED <<pc, call, outcome, result, enhanced, error, requests, cred_reads,
                   flag_evals, fallback_calls, memo, cli>>
    /\ UNCHANGED config_vars

(* summarizer.py:303-304: time.sleep(1) ends the iteration *)
PacingDelay ==
    /\ pc = "idle" /\ run.pc = "sleeping"
    /\ run' = RunAdvances([run EXCEPT !.sleeps = @ + 1])
    /\ UNCHANGED <<pc, call, outcome, result, enhanced, error, requests, cred_reads,
                   flag_evals, fallback_calls, memo, cli>>
    /\ UNCHANGED config_vars

(* the caller takes the results of the run *)
RunReturns ==
    /\ pc = "idle" /\ run.pc = "done"
    /\ run' = NoRun
    /\ UNCHANGED <<pc, call, outcome, result, enhanced, error, requests, cred_reads,
                   flag_evals, fallback_calls, memo, cli>>
    /\ UNCHANGED config_vars

(***************************************************************************)
(* cli.main, cli.py:96-216                                                 *)
(***************************************************************************)
(* the value of --count when the option is not given, cli.py:101 *)
CLI_DEFAULT_COUNT == 5

(* the largest --count the option type lets through, cli.py:103 *)
CLI_MAX_COUNT == 100

(* the keyword parameters of HackerNewsSummarizer.__init__, summarizer.py:15 *)
LegacyInitParams == {"mode"}

(* the keyword arguments main passes to the constructor, cli.py:182 *)
CliInitArgs == {"mode", "ollama_model", "allow_fallback"}

(* the progress line, cli.py:177 *)
ProgressLine(count) == <<"Fetching top ", count, " Hacker News articles...">>

(* the hint after a failure in a model-backed mode, cli.py:208-212 *)
CliHint(mode, fallback) ==
    IF mode = "basic" THEN <<>>
    ELSE IF fallback THEN <<"Note: Use --fallback">>
    ELSE <<"Hint: You can use --fallback">>

(* main up to the construction of the summarizer.  A keyword argument the  *)
(* constructor does not have raises TypeError, which the handler of main   *)
(* reports before it aborts; otherwise summarize_articles(count) is called *)
CliMain(count_given, count_opt, mode, fallback) ==
    /\ pc = "idle" /\ run.pc = "off" /\ cli.pc = "off"
    /\ count_given => count_opt \in 1..CLI_MAX_COUNT
    /\ ~count_given => count_opt = 0
    /\ LET count == IF count_given THEN count_opt ELSE CLI_DEFAULT_COUNT
           started == [NoCli EXCEPT !.count_given = count_given, !.count = count,
                                    !.mode = mode,
                                    !.progress = ProgressLine(count)]
       IN  cli' = IF CliInitArgs \subseteq LegacyInitParams
                  THEN [started EXCEPT !.pc = "running", !.calls = <<count>>]
                  ELSE [started EXCEPT !.pc = "aborted",
                            !.errors = <<"Error: TypeError">> \o CliHint(mode, fallback)]
    /\ UNCHANGED <<pc, call, outcome, result, enhanced, error, requests, cred_reads,
                   flag_evals, fallback_calls, memo, run>>
    /\ UNCHANGED config_vars

(* the process has ended *)
CliExits ==
    /\ cli.pc \in {"aborted", "done"}
    /\ cli' = NoCli
    /\ UNCHANGED <<pc, call, outcome, result, enhanced, error, requests, cred_reads,
                   flag_evals, fallback_calls, memo, run>>
    /\ UNCHANGED config_vars

(***************************************************************************)
(* The caller takes the result or the error and is ready for its next call *)
(***************************************************************************)
CallerContinues ==
    /\ pc \in {"returned", "raised"}
    /\ pc' = "idle"
    /\ call' = NoCall
    /\ outcome' = NoOutcome
    /\ result' = <<>>
    /\ enhanced' = <<>>
    /\ error' = <<>>
    /\ requests' = 0
    /\ cred_reads' = 0
    /\ flag_evals' = 0
    /\ fallback_calls' = 0
    /\ UNCHANGED config_vars
    /\ UNCHANGED caller_vars

(* the caller keeps the result of this call to compare a later one with it *)
CallerRemembers ==
    /\ pc \in {"returned", "raised"}
    /\ memo' = [call |-> call, pc |-> pc, result |-> result, enhanced |-> enhanced,
                fallback_calls |-> fallback_calls]
    /\ UNCHANGED <<run, cli>>
    /\ pc' = "idle"
    /\ call' = NoCall
    /\ outcome' = NoOutcome
    /\ result' = <<>>
    /\ enhanced' = <<>>
    /\ error' = <<>>
    /\ requests' = 0
    /\ cred_reads' = 0
    /\ flag_evals' = 0
    /\ fallback_calls' = 0
    /\ UNCHANGED config_vars

(***************************************************************************)
(* Bounds and input sets.                                                  *)
(***************************************************************************)
(* most raw lines in a generated plain response *)
MaxRespLines == 4

(* most numbered items in a generated KEY_POINTS / RELATED_LINKS section *)
MaxItems == 4

Titles == { <<>>, <<"T">>, <<"a", " ", "b", " ", "c", " ", "d">> }

Bodies ==
    { <<>>,
      <<" ">>,
      Rep("a", MIN_SENTENCE_LENGTH),
      Rep("a", MIN_SENTENCE_LENGTH + 1) \o <<".">>,
      Rep("a", MIN_SENTENCE_LENGTH + 1) \o <<".", " ">>
          \o Rep("b", MAX_LINE_LENGTH + 1) \o <<"!", "?">> }

Urls == { <<>>, <<"u">>, Rep("u", URL_DISPLAY_LIMIT + 1) }

Contents == [title : Titles, content : Bodies, url : Urls]

AuthorNames == { <<"u1">>, <<"u2">> }

(* every order in which a set of the author names can be iterated *)
HashOrders ==
    {o \in [1..Cardinality(AuthorNames) -> AuthorNames] :
        \A i, j \in DOMAIN o : i # j => o[i] # o[j]}

Comment(text, by) == [text |-> text, by |-> by]

CommentLists ==
    { <<>>,
      <<Comment(<<"x">>, <<>>)>>,
      <<Comment(<<"x">>, <<"u1">>), Comment(<<>>, <<"u2">>), Comment(<<"y">>, <<"u1">>)>> }

StoryIds == {7, 42}

(* handpicked plain responses: empty, blank, one to four lines *)
SomePlainTexts ==
    { <<>>,
      <<" ", "\n">>,
      <<"a">>,
      <<" ", "a", "\n", "\n", "b", " ">>,
      <<"a", "\n", "b", "\n", "c">>,
      <<"a", "\n", " ", "\n", "b", "\n", "c", "\n", "d">> }

RawLines == { <<>>, <<"a">>, <<" ", "b", " ">>, <<"a", " ", "b">> }

(* every text of 1..MaxRespLines raw lines joined by newlines *)
PlainTexts ==
    {Join(ls, <<"\n">>) : ls \in UNION {[1..k -> RawLines] : k \in 1..MaxRespLines}}

ItemLetters == <<"a", "b", "c", "d", "e", "f", "g">>

NumberedItem(i) == <<ToString(i), ".", " ", ItemLetters[i]>>

NumberedItems(k) == Join([i \in 1..k |-> NumberedItem(i)], <<"\n">>)

TextSectionVariants(label) ==
    { <<>>,
      <<label, " ", "x">>,
      <<label, "\n">>,
      <<label, "\n", "x", " ", "y">>,
      <<label, " ", "\n", "x", "\n", "NOTE:", " ", "y">> }

ListSectionVariants(label) ==
    { <<>>, <<label, "\n">>, <<label, "\n", "x">> }
    \cup {<<label, "\n">> \o NumberedItems(k) : k \in 1..MaxItems}

(* the sections that are present, joined by sep *)
JoinPresent(parts, sep) == Join(SelectSeq(parts, LAMBDA x : x # <<>>), sep)

(* every response made of one variant of each section, in prompt order *)
EnhTexts ==
    {JoinPresent(<<a, c, k, r>>, sep) :
        a \in TextSectionVariants("ARTICLE_SUMMARY:"),
        c \in TextSectionVariants("COMMENT_SUMMARY:"),
        k \in ListSectionVariants("KEY_POINTS:"),
        r \in ListSectionVariants("RELATED_LINKS:"),
        sep \in { <<"\n">>, <<"\n", "\n">> }}

(* handpicked enhanced responses: empty, unlabeled, partial, complete *)
SomeEnhTexts ==
    { <<>>,
      <<"x", " ", "y">>,
      <<"KEY_POINTS:", "\n">> \o NumberedItems(2),
      JoinPresent(<< <<"ARTICLE_SUMMARY:", "\n", "x">>,
                     <<"COMMENT_SUMMARY:", "\n", "y">>,
                     <<"KEY_POINTS:", "\n">> \o NumberedItems(3),
                     <<"RELATED_LINKS:", "\n">> \o NumberedItems(4) >>, <<"\n", "\n">>) }

Envelopes(texts) == {Envelope(FALSE, <<>>)} \cup {Envelope(TRUE, t) : t \in texts}

SomePlainEnvelopes == Envelopes(SomePlainTexts)

SomeEnhEnvelopes == Envelopes(SomeEnhTexts)

PlainEnvelopes == Envelopes(PlainTexts)

EnhEnvelopes == Envelopes(EnhTexts)

(***************************************************************************)
(* Specifications.                                                         *)
(***************************************************************************)
(* the state after construction of the summarizers, before any call *)
Quiescent ==
    /\ pc = "idle"
    /\ call = NoCall
    /\ outcome = NoOutcome
    /\ result = <<>>
    /\ enhanced = <<>>
    /\ error = <<>>
    /\ requests = 0
    /\ cred_reads = 0
    /\ flag_evals = 0
    /\ fallback_calls = 0
    /\ memo = NoMemo
    /\ run = NoRun
    /\ cli = NoCli

Init ==
    /\ allow_fallback \in BOOLEAN
    /\ api_key \in BOOLEAN
    /\ hash_order \in HashOrders
    /\ Quiescent

(* the response-parsing specifications: the credential is set *)
InitParse ==
    /\ allow_fallback \in BOOLEAN
    /\ api_key = TRUE
    /\ hash_order = CHOOSE o \in HashOrders : TRUE
    /\ Quiescent

(* the whole protocol: every summarizer, both operations *)
Next ==
    \/ pc = "idle" /\ \E c \in Contents : BasicSummarize(c)
    \/ pc = "idle" /\ \E c \in Contents : OllamaSummarize(c)
    \/ pc = "awaiting" /\ \E e \in BackendExceptions : OllamaSummarizeRaises(e)
    \/ pc = "awaiting" /\ \E env \in SomePlainEnvelopes : OllamaSummarizeResponds(env)
    \/ pc = "idle" /\ \E c \in Contents, cs \in CommentLists, id \in StoryIds :
          OllamaEnhancedSummarize(c, cs, id)
    \/ pc = "awaiting" /\ \E e \in BackendExceptions : OllamaEnhancedRaises(e)
    \/ pc = "awaiting" /\ \E env \in SomeEnhEnvelopes : OllamaEnhancedResponds(env)
    \/ pc = "idle" /\ \E c \in Contents : LLMAPISummarize(c)
    \/ pc = "awaiting" /\ \E e \in BackendExceptions : LLMAPISummarizeRaises(e)
    \/ pc = "awaiting" /\ \E env \in SomePlainEnvelopes : LLMAPISummarizeResponds(env)
    \/ pc = "idle" /\ \E c \in Contents, cs \in CommentLists, id \in StoryIds :
          LLMAPIEnhancedSummarize(c, cs, id)
    \/ pc = "awaiting" /\ \E e \in BackendExceptions : LLMAPIEnhancedRaises(e)
    \/ pc = "awaiting" /\ \E env \in SomeEnhEnvelopes : LLMAPIEnhancedResponds(env)
    \/ CallerContinues

Spec == Init /\ [][Next]_vars

(* contents of the response-parsing specifications *)
ParseContents ==
    { [title |-> <<"T">>, content |-> <<"a">>, url |-> <<"u">>],
      [title |-> <<>>, content |-> Rep("a", MIN_SENTENCE_LENGTH + 1) \o <<".">>, url |-> <<>>] }

(* summarize of the model-backed summarizers over every generated plain response *)
NextPlain ==
    \/ pc = "idle" /\ \E c \in ParseContents : OllamaSummarize(c)
    \/ pc = "awaiting" /\ \E env \in PlainEnvelopes : OllamaSummarizeResponds(env)
    \/ pc = "idle" /\ \E c \in ParseContents : LLMAPISummarize(c)
    \/ pc = "awaiting" /\ \E env \in PlainEnvelopes : LLMAPISummarizeResponds(env)
    \/ CallerContinues

SpecPlain == InitParse /\ [][NextPlain]_vars

(* enhanced_summarize over every generated sectioned response *)
NextEnh ==
    \/ pc = "idle" /\ \E c \in ParseContents : OllamaEnhancedSummarize(c, <<Comment(<<"x">>, <<"u1">>)>>, 7)
    \/ pc = "awaiting" /\ \E env \in EnhEnvelopes : OllamaEnhancedResponds(env)
    \/ pc = "idle" /\ \E c \in ParseContents : LLMAPIEnhancedSummarize(c, <<Comment(<<"x">>, <<"u1">>)>>, 7)
    \/ pc = "awaiting" /\ \E env \in EnhEnvelopes : LLMAPIEnhancedResponds(env)
    \/ CallerContinues

SpecEnh == InitParse /\ [][NextEnh]_vars

(* inputs of the legacy specification *)
LegacyModes == {"basic", "ollama", "llmapi", "fancy", ""}

LegacyOutcomes ==
    {Raised(e) : e \in BackendExceptions} \cup {Responded(env) : env \in SomePlainEnvelopes}

InitLegacy ==
    /\ allow_fallback = TRUE
    /\ api_key \in BOOLEAN
    /\ hash_order = CHOOSE o \in HashOrders : TRUE
    /\ Quiescent

(* generate_summary of the legacy HackerNewsSummarizer in every mode *)
NextLegacy ==
    \/ pc = "idle" /\ \E mode \in LegacyModes, c \in Contents,
                        oc \in LegacyOutcomes \cup {NoOutcome} :
          LegacyGenerateSummary(mode, c.title, c.content, c.url, oc)
    \/ CallerContinues

SpecLegacy == InitLegacy /\ [][NextLegacy]_vars

(* most ids that get_top_stories answers *)
MaxStories == 3

(* the answers of get_top_stories: lists of distinct ids, [] on an error *)
TopStoryLists ==
    {ids \in UNION {[1..k -> 1..MaxStories] : k \in 0..MaxStories} :
        \A i, j \in DOMAIN ids : i # j => ids[i] # ids[j]}

RunStories ==
    { NoStory,
      Story(<<"T">>, <<"u">>, 100),
      Story(<<"a", " ", "b">>, <<>>, 0) }

RunExtracts == { <<>>, Rep("a", 21) \o <<".">> }

RunOutcomes ==
    { Raised("Timeout"),
      Responded(Envelope(TRUE, <<" ">>)),
      Responded(Envelope(TRUE, <<"a", "\n", "b">>)) }

(* summarize_articles of the legacy HackerNewsSummarizer, run after run *)
NextRun ==
    \/ run.pc = "off" /\ \E mode \in {"basic", "ollama", "llmapi"}, limit \in {2, MaxStories},
                            top \in TopStoryLists :
          SummarizeArticles(mode, limit, top)
    \/ run.pc = "loop" /\ \E story \in RunStories : GetStoryDetails(story)
    \/ run.pc = "story" /\ \E extracted \in RunExtracts, oc \in RunOutcomes \cup {NoOutcome} :
          SummarizeStory(extracted, oc)
    \/ PacingDelay
    \/ RunReturns

SpecRun == InitLegacy /\ [][NextRun]_vars

(* the command line, invocation after invocation *)
NextCli ==
    \/ cli.pc = "off" /\ \E count_given \in BOOLEAN, count_opt \in 0..CLI_MAX_COUNT,
                            mode \in {"basic", "ollama", "llmapi"}, fallback \in BOOLEAN :
          CliMain(count_given, count_opt, mode, fallback)
    \/ CliExits

SpecCli == InitLegacy /\ [][NextCli]_vars

(* longest candidate list handed to the line-count enforcer *)
MaxCandidate == 4

CandidateLine == { <<>>, <<" ">>, <<"a">>, <<" ", "b", " ">>, <<"c">> }

Candidates == UNION {[1..k -> CandidateLine] : k \in 0..MaxCandidate}

EnsureContents ==
    { [title |-> <<"T">>, content |-> <<"x">>, url |-> <<"u">>],
      [title |-> <<>>, content |-> <<>>, url |-> <<>>] }

(* the line-count enforcer on every candidate list *)
NextEnsure ==
    \/ pc = "idle" /\ \E lines \in Candidates, content \in EnsureContents :
          EnsureLineCountCall(lines, content)
    \/ CallerContinues

SpecEnsure == InitParse /\ [][NextEnsure]_vars

(* most child comment ids of a story *)
MaxKids == 3

KidLists ==
    {ids \in UNION {[1..k -> 1..MaxKids] : k \in 0..MaxKids} :
        \A i, j \in DOMAIN ids : i # j => ids[i] # ids[j]}

CommentAnswers ==
    [1..MaxKids -> {NoComment, HNComment(<<" ">>, "a"), HNComment(<<"h", "i">>, "b")}]

(* the story the caller holds of an item with these kids *)
HeldStory(descendants, has_kids, item_kids) ==
    [descendants |-> descendants, has_kids |-> has_kids,
     kids |-> IF has_kids THEN item_kids ELSE <<>>]

(* get_top_comments on every story, with every answer of the HN API *)
NextComments ==
    \/ pc = "idle" /\ \E item_kids \in KidLists, descendants \in {0, 2},
                         has_kids \in BOOLEAN, details_found \in BOOLEAN,
                         answers \in CommentAnswers, max_comments \in {1, 2, 20} :
          GetTopComments(HeldStory(descendants, has_kids, item_kids), item_kids,
                         details_found, answers, max_comments)
    \/ CallerContinues

SpecComments == InitParse /\ [][NextComments]_vars

(* inputs of the heuristic-summarizer specification: titles and bodies with *)
(* surrounding whitespace, a fragment of exactly the minimum length        *)
BasicTitles == Titles \cup { <<" ", "T", " ">> }

BasicBodies ==
    Bodies \cup
    { <<" ">> \o Rep("a", MIN_SENTENCE_LENGTH) \o <<" ", ".">>
          \o Rep("b", MIN_SENTENCE_LENGTH + 1),
      <<" ">> \o Rep("a", MAX_LINE_LENGTH - 1) \o <<" ", "b", "!", "!", " ">>
          \o Rep("c", MAX_LINE_LENGTH) \o <<" ", "?", "d", ".">> }

BasicContents == [title : BasicTitles, content : BasicBodies, url : Urls]

(* BasicSummarizer.summarize called again and again by one caller *)
NextBasic ==
    \/ pc = "idle" /\ \E c \in BasicContents : BasicSummarize(c)
    \/ CallerContinues
    \/ CallerRemembers

SpecBasic == InitParse /\ [][NextBasic]_vars

(* inputs of the fallback-record specification: four commenter names, so  *)
(* that more than three distinct names occur among the first five comments *)
ManyAuthorNames == { <<"u1">>, <<"u2">>, <<"u3">>, <<"u4">> }

ManyHashOrders ==
    {o \in [1..Cardinality(ManyAuthorNames) -> ManyAuthorNames] :
        \A i, j \in DOMAIN o : i # j => o[i] # o[j]}

FallbackCommentLists ==
    { <<>>,
      <<Comment(<<"x">>, <<>>)>>,
      <<Comment(<<"x">>, <<"u2">>), Comment(<<>>, <<"u1">>), Comment(<<"y">>, <<"u2">>)>>,
      <<Comment(<<"x">>, <<"u1">>), Comment(<<"x">>, <<"u2">>), Comment(<<"x">>, <<"u3">>),
        Comment(<<"x">>, <<"u4">>)>>,
      <<Comment(<<"x">>, <<"u3">>), Comment(<<"x">>, <<"u1">>), Comment(<<"x">>, <<>>),
        Comment(<<"x">>, <<"u3">>), Comment(<<"x">>, <<"u1">>), Comment(<<"x">>, <<"u4">>)>> }

FallbackContents ==
    { [title |-> <<"a", " ", "b", " ", "c", " ", "d">>, content |-> <<>>, url |-> <<"u">>],
      [title |-> <<>>,
       content |-> Rep("a", MIN_SENTENCE_LENGTH + 1) \o <<".", " ">>
                   \o Rep("b", MIN_SENTENCE_LENGTH + 1) \o <<".">>,
       url |-> <<>>] }

FallbackExceptions == {"ConnectionError", "HTTPError"}

BlankEnvelopes == Envelopes({ <<" ", "\n">> })

InitFallback ==
    /\ allow_fallback = TRUE
    /\ api_key \in BOOLEAN
    /\ hash_order \in ManyHashOrders
    /\ Quiescent

(* enhanced_summarize calls whose backend fails, repeated by one caller *)
NextFallback ==
    \/ pc = "idle" /\ \E c \in FallbackContents, cs \in FallbackCommentLists :
          OllamaEnhancedSummarize(c, cs, 7)
    \/ pc = "awaiting" /\ \E e \in FallbackExceptions : OllamaEnhancedRaises(e)
    \/ pc = "awaiting" /\ \E env \in BlankEnvelopes : OllamaEnhancedResponds(env)
    \/ pc = "idle" /\ \E c \in FallbackContents, cs \in FallbackCommentLists :
          LLMAPIEnhancedSummarize(c, cs, 7)
    \/ pc = "awaiting" /\ \E e \in FallbackExceptions : LLMAPIEnhancedRaises(e)
    \/ pc = "awaiting" /\ \E env \in BlankEnvelopes : LLMAPIEnhancedResponds(env)
    \/ CallerContinues
    \/ CallerRemembers

SpecFallback == InitFallback /\ [][NextFallback]_vars

(***************************************************************************)
(* Properties.                                                             *)
(***************************************************************************)
Done == pc \in {"returned", "raised"}

ModelBacked == call.backend \in {"ollama", "llmapi"}

IsSummarize == call.op = "summarize"

IsEnhanced == call.op = "enhanced_summarize"

HasBody == call.content.content # <<>>

Blank(text) == \A i \in DOMAIN text : text[i] \in Whitespace

(* the request raised, or its envelope lacked the text, or the text was blank *)
BackendFailed ==
    \/ outcome.kind = "raised"
    \/ outcome.kind = "responded" /\ (~outcome.present \/ Blank(outcome.text))

(* the backend sent a text that is not blank *)
BackendAnswered ==
    outcome.kind = "responded" /\ outcome.present /\ ~Blank(outcome.text)

BackendName(backend) == IF backend = "ollama" THEN "Ollama" ELSE "LLM API"

NamesBackend(message, backend) == \E i \in DOMAIN message : message[i] = BackendName(backend)

HasRemedyHint(message) ==
    \E i \in DOMAIN message : message[i] = "Use --fallback to enable basic mode fallback."

(* the non-empty trimmed lines of a response text *)
UsableLines(text) == StripNonEmpty(SplitChar(text, "\n"))

(* C1: whenever summarize returns, of any summarizer, for any content, any
   backend response or failure and either value of allow_fallback, the
   returned list has exactly 3 elements. *)
C1_ShapeGuarantee ==
    (pc = "returned" /\ IsSummarize) => Len(result) = 3

C1_Witness ==
    /\ pc = "returned" /\ IsSummarize /\ call.backend = "llmapi"
    /\ BackendAnswered /\ Len(UsableLines(outcome.text)) = 4
    /\ Len(result) = 3

(* C2: when the backend of a model-backed summarize fails on a non-empty
   body and fallback is permitted, the call returns exactly the lines that
   BasicSummarizer.summarize gives for the same content. *)
C2_FallbackEqualsBasic ==
    (Done /\ ModelBacked /\ IsSummarize /\ HasBody /\ allow_fallback /\ BackendFailed)
        => (pc = "returned" /\ result = BasicSummarizer_summarize(call.content))

C2_Witness ==
    /\ pc = "returned" /\ call.backend = "ollama" /\ IsSummarize /\ HasBody
    /\ allow_fallback /\ outcome.kind = "raised" /\ outcome.exc = "Timeout"
    /\ Len(ExtractSentences(call.content.content)) = 2
    /\ result = BasicSummarizer_summarize(call.content)

(* C3: when the backend of a model-backed summarize (on a non-empty body)
   or enhanced_summarize fails, or the credential is missing, and fallback
   is forbidden, the call raises an error whose message names the backend
   and carries the enable-fallback hint, and nothing made by the heuristic
   summarizer is returned. *)
C3_FailureRaisesNamedError ==
    (Done /\ ModelBacked /\ (IsSummarize => HasBody) /\ ~allow_fallback
          /\ (BackendFailed \/ outcome.kind = "no_credential"))
        => /\ pc = "raised"
           /\ NamesBackend(error, call.backend)
           /\ HasRemedyHint(error)
           /\ result = <<>> /\ enhanced = <<>> /\ fallback_calls = 0

C3_Witness ==
    /\ pc = "raised" /\ call.backend = "ollama" /\ IsSummarize /\ HasBody
    /\ ~allow_fallback /\ outcome.kind = "raised"
    /\ NamesBackend(error, "ollama") /\ HasRemedyHint(error)

(* C4: with fallback permitted no model-backed call ever ends in an error:
   every backend outcome ends in a returned result. *)
C4_NoErrorWhenFallbackAllowed ==
    (allow_fallback /\ ModelBacked) => pc # "raised"

C4_Witness ==
    /\ pc = "returned" /\ allow_fallback /\ call.backend = "ollama" /\ IsSummarize
    /\ outcome.kind = "raised" /\ outcome.exc = "ConnectionError"

(* the URL line of the no-content placeholder *)
PlaceholderUrlLine(url) ==
    IF url = <<>> THEN <<"No URL available">>
    ELSE IF Len(url) > 80 THEN <<"URL:", " ">> \o SubSeq(url, 1, 80) \o <<"...">>
    ELSE <<"URL:", " ">> \o url

(* C5: on an empty body summarize of every summarizer returns the fixed
   placeholder (title line, notice, URL line), issues no backend request
   and does not read the credential, for both values of allow_fallback,
   and never raises. *)
C5_NoContentShortCircuit ==
    (pc # "idle" /\ IsSummarize /\ ~HasBody)
        => /\ pc = "returned"
           /\ result = << <<"Title:", " ">> \o call.content.title,
                          <<"Content not available for summarization.">>,
                          PlaceholderUrlLine(call.content.url) >>
           /\ requests = 0
           /\ cred_reads = 0

C5_Witness ==
    /\ pc = "returned" /\ IsSummarize /\ ~HasBody /\ call.backend = "ollama"
    /\ ~allow_fallback /\ Len(call.content.url) > 80
    /\ requests = 0

(* C6: when the response text has at least 3 non-empty trimmed lines, the
   model-backed summarize returns exactly the first 3 of them, in order. *)
C6_FirstThreeVerbatim ==
    (Done /\ ModelBacked /\ IsSummarize /\ BackendAnswered
          /\ Len(UsableLines(outcome.text)) >= 3)
        => (pc = "returned" /\ result = SubSeq(UsableLines(outcome.text), 1, 3))

C6_Witness ==
    /\ pc = "returned" /\ call.backend = "ollama" /\ IsSummarize /\ BackendAnswered
    /\ Len(UsableLines(outcome.text)) = 4
    /\ UsableLines(outcome.text)[1] # UsableLines(outcome.text)[4]
    /\ result = SubSeq(UsableLines(outcome.text), 1, 3)

(* the generic pad lines of each backend *)
GenericPlaceholders(backend) ==
    IF backend = "ollama"
    THEN { <<"Additional details available in full article.">>,
           <<"See source for more information.">> }
    ELSE { <<"Additional context available in source article.">>,
           <<"Full details available at source URL.">> }

(* C7: when the response text has 1 or 2 usable lines, the model-backed
   summarize returns 3 lines: the backend's lines first, in order, then
   only generic placeholders of that backend; it is not an error for
   either value of allow_fallback. *)
C7_PartialResponsePadded ==
    (Done /\ ModelBacked /\ IsSummarize /\ BackendAnswered
          /\ Len(UsableLines(outcome.text)) \in {1, 2})
        => LET lines == UsableLines(outcome.text)
           IN  /\ pc = "returned"
               /\ Len(result) = 3
               /\ SubSeq(result, 1, Len(lines)) = lines
               /\ \A i \in (Len(lines) + 1)..3 : result[i] \in GenericPlaceholders(call.backend)

C7_Witness ==
    /\ pc = "returned" /\ call.backend = "ollama" /\ IsSummarize /\ BackendAnswered
    /\ ~allow_fallback
    /\ Len(UsableLines(outcome.text)) = 1
    /\ result[3] = <<"See source for more information.">>

(* C8: for the LLM API summarizer an absent OPENAI_API_KEY is handled like
   a transport failure, in summarize (on a non-empty body, where a request
   would be made) and in enhanced_summarize: with fallback permitted the
   result is the heuristic summary, resp. the basic-enhanced record, of the
   same input; with fallback forbidden the call raises the error that names
   the backend. *)
C8_MissingKeyLikeTransportFailure ==
    (Done /\ call.backend = "llmapi" /\ ~api_key /\ (IsSummarize => HasBody))
        => IF allow_fallback
           THEN /\ pc = "returned"
                /\ IsSummarize => result = BasicSummarizer_summarize(call.content)
                /\ IsEnhanced => enhanced = <<GenerateBasicEnhancedSummary(
                        call.content, call.comments, call.story_id, hash_order)>>
           ELSE /\ pc = "raised"
                /\ NamesBackend(error, "llmapi")
                /\ HasRemedyHint(error)

C8_Witness ==
    /\ pc = "raised" /\ call.backend = "llmapi" /\ IsEnhanced
    /\ ~api_key /\ ~allow_fallback /\ requests = 0
    /\ NamesBackend(error, "llmapi")

(* C9: whenever enhanced_summarize returns, by the parsed path or by the
   fallback path, for any combination of present, absent, empty, partial
   or over-long sections, key_points has exactly 3 entries and
   related_links has exactly 3 entries. *)
C9_EnhancedShape ==
    (pc = "returned" /\ IsEnhanced)
        => /\ Len(enhanced) = 1
           /\ Len(enhanced[1].key_points) = 3
           /\ Len(enhanced[1].related_links) = 3

C9_Witness ==
    /\ pc = "returned" /\ IsEnhanced /\ BackendAnswered
    /\ Len(FindAllItems(Strip(SearchSection(Strip(outcome.text), "KEY_POINTS:").text), 1)) = 2
    /\ Len(FindAllItems(Strip(SearchSection(Strip(outcome.text), "RELATED_LINKS:").text), 1)) = 4
    /\ Len(enhanced[1].key_points) = 3
    /\ Len(enhanced[1].related_links) = 3

(* no labeled section of the text can be parsed: the two free-text labels
   are not found, and the two list labels are not found or hold no item *)
NoSectionParsed(text) ==
    /\ ~SearchSection(text, "ARTICLE_SUMMARY:").found
    /\ ~SearchSection(text, "COMMENT_SUMMARY:").found
    /\ FindAllItems(Strip(SearchSection(text, "KEY_POINTS:").text), 1) = <<>>
    /\ FindAllItems(Strip(SearchSection(text, "RELATED_LINKS:").text), 1) = <<>>

(* the record whose four fields are the per-field placeholders *)
AllPlaceholders(url, story_id) ==
    [article_summary |-> <<"Article summary not available.">>,
     comment_summary |-> <<"Comment summary not available.">>,
     key_points      |-> << <<"Key insights not available.">>,
                            <<"Key insights not available.">>,
                            <<"Key insights not available.">> >>,
     related_links   |-> << <<"Related topic research suggested.">>,
                            <<"Related topic research suggested.">>,
                            <<"Related topic research suggested.">> >>,
     original_url    |-> url,
     hn_discussion_url |-> <<"https://news.ycombinator.com/item?id=", ToString(story_id)>>]

(* C10 as stated: a non-empty response to enhanced_summarize from which no
   labeled section can be parsed is treated like a transport failure: the
   basic-enhanced record with fallback permitted, the backend-naming error
   with fallback forbidden. *)
C10_UnparsedTreatedAsFailure ==
    (Done /\ ModelBacked /\ IsEnhanced /\ BackendAnswered
          /\ NoSectionParsed(Strip(outcome.text)))
        => IF allow_fallback
           THEN /\ pc = "returned"
                /\ enhanced = <<GenerateBasicEnhancedSummary(
                        call.content, call.comments, call.story_id, hash_order)>>
           ELSE /\ pc = "raised"
                /\ NamesBackend(error, call.backend)

(* C10 amended: a non-empty response to enhanced_summarize from which no
   labeled section can be parsed is not a failure: for both values of
   allow_fallback the call returns the record whose article_summary,
   comment_summary, key_points and related_links are the fixed per-field
   placeholders, with the original URL and the discussion URL; it neither
   raises nor calls the heuristic fallback. *)
C10_UnparsedGivesPlaceholders ==
    (Done /\ ModelBacked /\ IsEnhanced /\ BackendAnswered
          /\ NoSectionParsed(Strip(outcome.text)))
        => /\ pc = "returned"
           /\ enhanced = <<AllPlaceholders(call.content.url, call.story_id)>>
           /\ fallback_calls = 0

C10_Witness ==
    /\ pc = "returned" /\ call.backend = "llmapi" /\ IsEnhanced /\ BackendAnswered
    /\ ~allow_fallback
    /\ NoSectionParsed(Strip(outcome.text))
    /\ \E i \in DOMAIN outcome.text : outcome.text[i] = "ARTICLE_SUMMARY:"
    /\ enhanced[1].article_summary = <<"Article summary not available.">>

(* the numbered lines of a section text, read line by line: for every line
   that begins with digits and a period, the trimmed rest of the line *)
NumberedLines(text) ==
    LET lines == StripNonEmpty(SplitChar(text, "\n"))
        numbered == SelectSeq(lines, LAMBDA l : NumberAt(l, 1))
    IN  [i \in 1..Len(numbered) |-> Strip(Drop(numbered[i], RunEnd(numbered[i], 1, Digits)))]

(* the list that C11 prescribes for the section found under label *)
PrescribedList(text, label, filler, default) ==
    LET sec == SearchSection(text, label)
        items == NumberedLines(sec.text)
        m == Len(items)
    IN  IF ~sec.found \/ m = 0 THEN <<default, default, default>>
        ELSE IF m < 3 THEN items \o [i \in 1..(3 - m) |-> filler]
        ELSE SubSeq(items, 1, 3)

(* C11: when enhanced_summarize parses a response, key_points (resp.
   related_links) is: the m numbered items of the parsed KEY_POINTS (resp.
   RELATED_LINKS) section in order followed by 3-m copies of "Additional
   insights available in full discussion." (resp. "Explore related topics
   in the field.") if 1 <= m < 3; the first 3 items if m >= 3; three copies
   of the per-section default if the section holds no numbered item or is
   absent. *)
C11_ListPadding ==
    (pc = "returned" /\ ModelBacked /\ IsEnhanced /\ BackendAnswered)
        => /\ enhanced[1].key_points =
                PrescribedList(Strip(outcome.text), "KEY_POINTS:",
                    <<"Additional insights available in full discussion.">>,
                    <<"Key insights not available.">>)
           /\ enhanced[1].related_links =
                PrescribedList(Strip(outcome.text), "RELATED_LINKS:",
                    <<"Explore related topics in the field.">>,
                    <<"Related topic research suggested.">>)

C11_Witness ==
    /\ pc = "returned" /\ call.backend = "ollama" /\ IsEnhanced /\ BackendAnswered
    /\ enhanced[1].key_points =
          << <<"a">>, <<"Additional insights available in full discussion.">>,
             <<"Additional insights available in full discussion.">> >>
    /\ enhanced[1].related_links = << <<"a">>, <<"b">>, <<"c">> >>
    /\ Len(NumberedLines(SearchSection(Strip(outcome.text), "RELATED_LINKS:").text)) = 4

(* the authors of the first five comments that carry an author *)
FirstFiveAuthors(comments) ==
    {comments[i].by : i \in {j \in 1..Len(comments) : j <= 5 /\ comments[j].by # <<>>}}

(* some arrangement of distinct names of S, three of them if S has more *)
IsNameChoice(names, S) ==
    /\ Len(names) = (IF Cardinality(S) > 3 THEN 3 ELSE Cardinality(S))
    /\ \A i \in DOMAIN names : names[i] \in S
    /\ \A i, j \in DOMAIN names : i # j => names[i] # names[j]

(* text is the comment gist for the comment count n and the names *)
IsCommentGist(text, n, names) ==
    text = <<"Discussion with", " ", ToString(n), " ", "comments from", " ">>
           \o (IF names = <<>> THEN <<"community members">> ELSE Join(names, <<",", " ">>))
           \o <<" ", "covering various perspectives on the topic.">>

(* an enhanced_summarize call of the same inputs that fell back was kept *)
SameInputsKept ==
    /\ memo.pc = "returned"
    /\ memo.fallback_calls > 0
    /\ memo.call.op = "enhanced_summarize"
    /\ memo.call.content = call.content
    /\ memo.call.comments = call.comments
    /\ memo.call.story_id = call.story_id

(* C12: when the backend of an enhanced_summarize call fails (or the
   credential is missing) and fallback is permitted, the call returns the
   basic-enhanced record of its inputs: the article gist is lines 1 and 2 of
   the heuristic summary joined by one space; the comment gist is built from
   the comment count and up to three distinct commenter names; the key
   points are the three fixed ones; the first related link is seeded with
   the first three words of the title and the other two are fixed; and an
   earlier call of this process with the same inputs returned the same
   record. *)
C12_FallbackRecord ==
    (Done /\ ModelBacked /\ IsEnhanced /\ allow_fallback
          /\ (BackendFailed \/ outcome.kind = "no_credential"))
        => /\ pc = "returned"
           /\ LET e == enhanced[1]
                  basic == BasicSummarizer_summarize(call.content)
                  title == call.content.title
                  n == Len(call.comments)
              IN  /\ e.article_summary = basic[1] \o <<" ">> \o basic[2]
                  /\ IF n = 0
                     THEN e.comment_summary = <<"Limited discussion available for this article.">>
                     ELSE \E k \in 0..3 : \E names \in [1..k -> FirstFiveAuthors(call.comments)] :
                            /\ IsNameChoice(names, FirstFiveAuthors(call.comments))
                            /\ IsCommentGist(e.comment_summary, n, names)
                  /\ e.key_points =
                        << <<"Main article discusses the core topic and its implications">>,
                           <<"Community discussion provides additional insights and perspectives">>,
                           <<"Topic represents current trends and developments in the field">> >>
                  /\ e.related_links =
                        << <<"Search for more information about", " ">>
                              \o (IF title = <<>> THEN <<"this topic">>
                                  ELSE Join(Take(SplitWords(title), 3), <<" ">>)),
                           <<"Explore related discussions on Hacker News">>,
                           <<"Research current developments in this technology area">> >>
                  /\ SameInputsKept => memo.enhanced = enhanced

C12_Witness ==
    /\ pc = "returned" /\ call.backend = "ollama" /\ IsEnhanced /\ allow_fallback
    /\ outcome.kind = "raised"
    /\ Cardinality(FirstFiveAuthors(call.comments)) = 4
    /\ call.content.title = <<"a", " ", "b", " ", "c", " ", "d">>
    /\ SameInputsKept /\ memo.call.backend = "llmapi"
    /\ memo.enhanced = enhanced

(* the positions of a text at which a fragment begins: a character that is
   no sentence terminator, at the start or right after a terminator *)
FragmentStarts(text) ==
    {i \in DOMAIN text : text[i] \notin {".", "!", "?"}
                         /\ (i = 1 \/ text[i - 1] \in {".", "!", "?"})}

(* the fragment that begins at position i, trimmed *)
FragmentAt(text, i) ==
    Strip(SubSeq(text, i, First(i, Len(text), LAMBDA k : text[k] \in {".", "!", "?"}) - 1))

(* the starts of the fragments whose trimmed length is greater than 20 *)
SurvivorStarts(text) == {i \in FragmentStarts(text) : Len(FragmentAt(text, i)) > 20}

(* the n-th surviving fragment, in text order *)
Survivor(text, n) ==
    FragmentAt(text, CHOOSE i \in SurvivorStarts(text) :
                        Cardinality({j \in SurvivorStarts(text) : j < i}) = n - 1)

(* a fragment cut to its first 120 characters plus "..." if it is longer *)
CutTo120(fragment) ==
    IF Len(fragment) > 120 THEN SubSeq(fragment, 1, 120) \o <<"...">> ELSE fragment

(* the three lines that C13 lists, as written *)
ListedLines(content) ==
    LET n == Cardinality(SurvivorStarts(content.content))
    IN  << <<"Article:", " ">> \o content.title,
           IF n >= 1 THEN CutTo120(Survivor(content.content, 1))
                     ELSE <<"No content available.">>,
           IF n >= 2 THEN CutTo120(Survivor(content.content, 2))
                     ELSE <<"URL:", " ">> \o content.url >>

(* C13 as stated: for a non-empty body BasicSummarizer.summarize returns
   line 1 = "Article: {title}", line 2 = the first fragment of trimmed
   length greater than 20 (cut to 120 characters plus "..."), or "No content
   available.", line 3 = the second such fragment, or "URL: {url}". *)
C13_BasicLinesAsListed ==
    (pc = "returned" /\ call.backend = "basic" /\ HasBody)
        => result = ListedLines(call.content)

(* C13 amended: for a non-empty body BasicSummarizer.summarize returns the
   three listed lines, each with its leading and trailing whitespace
   removed: "Article: {title}" (so "Article:" for an empty title), the first
   fragment of trimmed length greater than 20 cut to 120 characters plus
   "...", or "No content available.", and the second such fragment, or
   "URL: {url}" (so "URL:" for an empty URL).  A fragment of trimmed length
   exactly 20 is discarded. *)
C13_BasicLinesTrimmed ==
    (pc = "returned" /\ call.backend = "basic" /\ HasBody)
        => result = [i \in 1..3 |-> Strip(ListedLines(call.content)[i])]

C13_Witness ==
    /\ pc = "returned" /\ call.backend = "basic" /\ HasBody
    /\ call.content.title = <<>>
    /\ Cardinality(FragmentStarts(call.content.content)) = 2
    /\ Cardinality(SurvivorStarts(call.content.content)) = 1
    /\ \E i \in FragmentStarts(call.content.content) :
          Len(FragmentAt(call.content.content, i)) = 20
    /\ result[1] = <<"Article:">>
    /\ result[2] = Rep("b", 21)
    /\ result[3] = <<"URL:", " ", "u">>

(* a step that is one whole call of BasicSummarizer.summarize *)
BasicCallStep == pc = "idle" /\ pc' = "returned" /\ call'.backend = "basic"

(* the caller kept an earlier BasicSummarizer.summarize call on content *)
KeptBasicCall(content) ==
    memo.pc = "returned" /\ memo.call.backend = "basic" /\ memo.call.content = content

(* C14: every call of BasicSummarizer.summarize returns the lines that an
   earlier call of the same process returned for the same ArticleContent,
   whatever calls on other contents came between, and the call changes
   neither the configuration nor anything its caller holds (the
   ArticleContent objects of earlier calls and their results). *)
C14_BasicDeterministic ==
    [][BasicCallStep =>
          /\ KeptBasicCall(call'.content) => result' = memo.result
          /\ UNCHANGED config_vars
          /\ UNCHANGED caller_vars]_vars

C14_Witness ==
    /\ pc = "returned" /\ call.backend = "basic" /\ HasBody
    /\ KeptBasicCall(call.content)
    /\ Cardinality(SurvivorStarts(call.content.content)) = 2
    /\ result = memo.result

(* the number of characters of an atom: a literal chunk counts its
   characters, any other atom is one character *)
AtomLen(a) ==
    CASE a = "..." -> 3
      [] a = "URL:" -> 4
      [] a = "Title:" -> 6
      [] a = "No URL available" -> 16
      [] OTHER -> 1

(* len(text) in characters *)
RECURSIVE CharLen(_)
CharLen(text) == IF text = <<>> THEN 0 ELSE AtomLen(Head(text)) + CharLen(Tail(text))

(* C15: when summarize returns for an empty body and a URL longer than 80
   characters, line 3 contains the ellipsis "..." and has strictly fewer
   characters than the raw URL. *)
C15_LongUrlLineShorter ==
    (pc = "returned" /\ IsSummarize /\ ~HasBody /\ Len(call.content.url) > 80)
        => /\ \E i \in DOMAIN result[3] : result[3][i] = "..."
           /\ CharLen(result[3]) < CharLen(call.content.url)

(* C16: generate_summary of the legacy HackerNewsSummarizer with a mode
   that is none of basic, ollama, llmapi never raises, issues no backend
   request, and returns exactly the heuristic summary of the same title,
   content and url. *)
C16_UnknownModeIsBasic ==
    (pc # "idle" /\ call.backend = "legacy" /\ call.op \notin {"basic", "ollama", "llmapi"})
        => /\ pc = "returned"
           /\ requests = 0
           /\ result = LegacyBasicSummary(call.content.title, call.content.content,
                                          call.content.url)

C16_Witness ==
    /\ pc = "returned" /\ call.backend = "legacy" /\ call.op = "fancy"
    /\ call.content.content # <<>>
    /\ result[1] = <<"Article:", " ">> \o call.content.title
    /\ result[3] = <<"URL:", " ">> \o call.content.url

(***************************************************************************)
(* C17: summarize_articles takes the ids one at a time in the order        *)
(* get_top_stories returned them; the results hold exactly one entry for   *)
(* each id whose details were found, in that order; an id whose details    *)
(* were not found adds no entry and does not end the loop; with no ids the *)
(* result is the empty list.                                               *)
(***************************************************************************)
TraceIds(trace) == [k \in DOMAIN trace |-> trace[k].id]

EntryIds(results) == [k \in DOMAIN results |-> results[k].id]

WasFound(step) == step.found

FoundIds(trace) == TraceIds(SelectSeq(trace, WasFound))

C17_SequentialRun ==
    run.pc # "off" =>
        /\ TraceIds(run.trace) = Take(run.story_ids, Len(run.trace))
        /\ Len(run.trace) = CASE run.pc = "loop" -> run.i - 1
                               [] run.pc \in {"story", "sleeping"} -> run.i
                               [] OTHER -> Len(run.story_ids)
        /\ EntryIds(run.results) =
              FoundIds(IF run.pc = "story"
                       THEN SubSeq(run.trace, 1, Len(run.trace) - 1)
                       ELSE run.trace)
        /\ run.story_ids = <<>> => run.pc = "done" /\ run.results = <<>>

(* a finished run of three ids whose second id had no details *)
C17_Witness ==
    /\ run.pc = "done"
    /\ Len(run.story_ids) = 3
    /\ run.trace[1].found /\ ~run.trace[2].found /\ run.trace[3].found
    /\ EntryIds(run.results) = <<run.story_ids[1], run.story_ids[3]>>

(***************************************************************************)
(* C18: a summarization failure for one story is not fatal to the run.     *)
(* As stated: the loop skips the failed story, so a finished run has       *)
(* entries for exactly the stories that were found and did not fail.       *)
(***************************************************************************)
Summarized(step) == step.found /\ ~step.failed

C18_FailedStorySkipped ==
    run.pc = "done" =>
        EntryIds(run.results) = TraceIds(SelectSeq(run.trace, Summarized))

(***************************************************************************)
(* C18 as the code has it: generate_summary absorbs the failed request and *)
(* returns the heuristic summary, so the failed story keeps its entry,     *)
(* with the heuristic summary; the loop goes on to the last id and every   *)
(* story found has its entry when the run returns.                         *)
(***************************************************************************)
C18_FailureKeepsEntry ==
    /\ run.pc \in {"off", "loop", "story", "sleeping", "done"}
    /\ \A k \in DOMAIN run.trace :
          run.trace[k].failed =>
              \E j \in DOMAIN run.results :
                  /\ run.results[j].id = run.trace[k].id
                  /\ run.results[j].summary =
                        LegacyBasicSummary(run.results[j].title, run.trace[k].content,
                                           run.results[j].url)
    /\ run.pc = "done" =>
          /\ Len(run.trace) = Len(run.story_ids)
          /\ Len(run.results) = Len(SelectSeq(run.trace, WasFound))

(* a finished run whose first story failed and whose second was summarized *)
C18_Witness ==
    /\ run.pc = "done"
    /\ Len(run.trace) >= 2
    /\ run.trace[1].failed
    /\ run.trace[2].found /\ ~run.trace[2].failed /\ run.trace[2].content # <<>>
    /\ Len(run.results) >= 2
    /\ run.results[1].id = run.trace[1].id
    /\ run.results[2].summary = <<<<"a">>, <<"b">>, <<"URL:", " ", "u">>>>

(***************************************************************************)
(* C19: invoked without --count, the command line summarizes 20 articles:  *)
(* summarize_articles is called exactly once, with 20, and the progress    *)
(* line reads "Fetching top 20 Hacker News articles...".                   *)
(***************************************************************************)
C19_DefaultCountIs20 ==
    (cli.pc # "off" /\ ~cli.count_given) =>
        /\ cli.calls = <<20>>
        /\ cli.progress = ProgressLine(20)

(* the two generic pad lines of each backend, ollama.py:127,130 and
   llmapi.py:136,139 *)
AdditionalDetailsLine(backend) ==
    IF backend = "ollama" THEN <<"Additional details available in full article.">>
    ELSE <<"Additional context available in source article.">>

SeeSourceLine(backend) ==
    IF backend = "ollama" THEN <<"See source for more information.">>
    ELSE <<"Full details available at source URL.">>

(* the response text of a finished model-backed summarize had 1 or 2 usable lines *)
PartialResponse ==
    /\ Done /\ ModelBacked /\ IsSummarize /\ BackendAnswered
    /\ Len(UsableLines(outcome.text)) \in {1, 2}

(***************************************************************************)
(* C20: when the backend returned 1 or 2 usable lines, the first line that *)
(* _parse_summary_response appends is the backend's "additional details"   *)
(* placeholder and every further appended line is its "see source"         *)
(* placeholder, after 1 line and after 2 lines alike.                      *)
(***************************************************************************)
C20_FirstPadIsAdditionalDetails ==
    PartialResponse =>
        LET n == Len(UsableLines(outcome.text))
        IN  /\ pc = "returned" /\ Len(result) = 3
            /\ result[n + 1] = AdditionalDetailsLine(call.backend)
            /\ \A i \in (n + 2)..3 : result[i] = SeeSourceLine(call.backend)

(***************************************************************************)
(* C20 as the code has it: the placeholder goes by the line it fills.  An  *)
(* appended line 2 is the "additional details" placeholder and an appended *)
(* line 3 is the "see source" placeholder, so after 2 usable lines the     *)
(* only appended line is "see source".                                     *)
(***************************************************************************)
C20_PadByLinePosition ==
    PartialResponse =>
        LET n == Len(UsableLines(outcome.text))
        IN  /\ pc = "returned" /\ Len(result) = 3
            /\ \A i \in (n + 1)..3 :
                  result[i] = IF i = 2 THEN AdditionalDetailsLine(call.backend)
                              ELSE SeeSourceLine(call.backend)

(* two usable lines from the LLM API: the one appended line is "see source" *)
C20_Witness ==
    /\ PartialResponse
    /\ call.backend = "llmapi"
    /\ Len(UsableLines(outcome.text)) = 2
    /\ result = Append(UsableLines(outcome.text),
                       <<"Full details available at source URL.">>)

(* the three lines the enforcer can insert, base.py:57-67 *)
EnforcerLines(content) ==
    << <<"Article:", " ">> \o content.title,
       <<"Content not available for detailed summarization.">>,
       <<"URL:", " ">> \o content.url >>

(* a finished direct call of the enforcer *)
EnsureDone == pc = "returned" /\ call.op = "_ensure_line_count"

(***************************************************************************)
(* C21: given a candidate with fewer than 3 non-empty lines the enforcer   *)
(* inserts first the title line, second the fixed explanatory line, and    *)
(* then the URL line; given more than 3 lines it returns the first 3.      *)
(***************************************************************************)
C21_PadsTitleFirst ==
    EnsureDone =>
        LET kept == StripNonEmpty(call.lines)
        IN  result = IF Len(kept) >= SUMMARY_LINES THEN Take(kept, SUMMARY_LINES)
                     ELSE kept \o Take(EnforcerLines(call.content),
                                       SUMMARY_LINES - Len(kept))

(***************************************************************************)
(* C21 as the code has it: the inserted line goes by the position it       *)
(* fills.  Line 1 is the title line, line 2 the explanatory line, line 3   *)
(* the URL line: an empty candidate gets all three, a candidate of 1 line  *)
(* gets the explanatory line and the URL line, a candidate of 2 lines gets *)
(* the URL line.  More than 3 lines are cut to the first 3.                *)
(***************************************************************************)
C21_PadsByPosition ==
    EnsureDone =>
        LET kept == StripNonEmpty(call.lines)
        IN  result = IF Len(kept) >= SUMMARY_LINES THEN Take(kept, SUMMARY_LINES)
                     ELSE kept \o Drop(EnforcerLines(call.content), Len(kept))

(* one usable line among blanks: the explanatory line and the URL line follow *)
C21_Witness ==
    /\ EnsureDone
    /\ call.lines = << <<" ">>, <<" ", "b", " ">>, <<>> >>
    /\ call.content.title = <<"T">>
    /\ result = << <<"b">>, <<"Content not available for detailed summarization.">>,
                   <<"URL:", " ", "u">> >>

(***************************************************************************)
(* C22: a summarize or enhanced_summarize call of a model-backed           *)
(* summarizer issues at most one backend request and does not repeat it    *)
(* after a failure; it issues none when the credential is missing; it      *)
(* invokes the heuristic fallback at most once, and only after the request *)
(* failed or came back empty, or was skipped for the missing credential.   *)
(***************************************************************************)
C22_SingleRequest ==
    ModelBacked =>
        /\ requests <= 1
        /\ (Done /\ BackendFailed) => requests = 1
        /\ (call.backend = "llmapi" /\ ~api_key) => requests = 0
        /\ fallback_calls <= 1
        /\ fallback_calls = 1 =>
              /\ Done
              /\ \/ outcome = NoCredential /\ requests = 0
                 \/ BackendFailed /\ requests = 1

(* the request timed out and the fallback answered, once *)
C22_Witness ==
    /\ pc = "returned" /\ call.backend = "ollama" /\ IsEnhanced
    /\ outcome = Raised("Timeout")
    /\ requests = 1
    /\ fallback_calls = 1

(***************************************************************************)
(* C23: within one summarize or enhanced_summarize call of a model-backed  *)
(* summarizer, config.allow_fallback is evaluated exactly once on every    *)
(* failure path (transport exception, empty response, missing credential), *)
(* whichever value the flag has.                                           *)
(***************************************************************************)
C23_FlagEvaluatedOnce ==
    (Done /\ ModelBacked /\ (BackendFailed \/ outcome = NoCredential))
        => flag_evals = 1

(* the text holds one of the four section labels *)
HoldsSectionLabel(text) == \E i \in DOMAIN text : text[i] \in SectionLabels

(***************************************************************************)
(* C24: the text captured for a label ends before the next labeled section *)
(* line or at the end of the text, so the value parsed for ARTICLE_SUMMARY *)
(* or COMMENT_SUMMARY never holds a later section's label or body, also    *)
(* when the section's own body is empty.                                   *)
(***************************************************************************)
C24_CaptureStopsAtNextLabel ==
    (pc = "returned" /\ ModelBacked /\ IsEnhanced /\ BackendAnswered)
        => /\ ~HoldsSectionLabel(enhanced[1].article_summary)
           /\ ~HoldsSectionLabel(enhanced[1].comment_summary)

(* enhanced_summarize of a model-backed summarizer returns in this step *)
EnhancedReturnStep ==
    /\ pc # "returned" /\ pc' = "returned"
    /\ call'.backend \in {"ollama", "llmapi"}
    /\ call'.op = "enhanced_summarize"

(***************************************************************************)
(* C25: on every path on which enhanced_summarize returns (parsed          *)
(* response, empty-response fallback, exception fallback, missing-         *)
(* credential fallback) original_url is content.url unchanged and          *)
(* hn_discussion_url is "https://news.ycombinator.com/item?id=" followed   *)
(* by the story identifier; the arguments of the call are what they were   *)
(* when the request was issued.                                            *)
(***************************************************************************)
C25_UrlsCarriedOver ==
    [][EnhancedReturnStep =>
          /\ enhanced'[1].original_url = call'.content.url
          /\ enhanced'[1].hn_discussion_url =
                <<"https://news.ycombinator.com/item?id=", ToString(call'.story_id)>>
          /\ pc = "awaiting" => call' = call]_vars

(* a fallback record after a timeout carries the URL and the story's link *)
C25_Witness ==
    /\ pc = "returned" /\ call.backend = "llmapi" /\ IsEnhanced
    /\ outcome = Raised("Timeout")
    /\ call.content.url # <<>>
    /\ enhanced[1].original_url = call.content.url
    /\ enhanced[1].hn_discussion_url =
          <<"https://news.ycombinator.com/item?id=", ToString(call.story_id)>>

(***************************************************************************)
(* C26: summarize_articles delays exactly once per story for which it      *)
(* appends an entry, after the entry is appended and also after the last   *)
(* story, and not at all for a story that is skipped for missing details;  *)
(* the number of delays of a run equals the number of its result entries.  *)
(***************************************************************************)
C26_OneDelayPerEntry ==
    /\ run.pc = "sleeping" => run.sleeps = Len(run.results) - 1
    /\ run.pc \in {"loop", "story", "done"} => run.sleeps = Len(run.results)

(* a finished run: two entries, two delays, the skipped last id without one *)
C26_Witness ==
    /\ run.pc = "done"
    /\ Len(run.story_ids) = 3
    /\ ~run.trace[3].found
    /\ Len(run.results) = 2
    /\ run.sleeps = 2

(***************************************************************************)
(* C27: get_top_comments fetches the top-level comments of a story: for a  *)
(* story that has child comment ids it returns, in order, the comments     *)
(* with non-empty text among the first max_comments child ids that could   *)
(* be fetched.                                                             *)
(***************************************************************************)
C27_TopCommentsFetched ==
    (pc = "returned" /\ call.op = "get_top_comments" /\ call.item_kids # <<>>
          /\ call.story.descendants > 0 /\ call.details_found)
        => result = FetchComments(call.item_kids, call.answers, call.max_comments)

(* a finished summarize call went through _ensure_line_count: the body is  *)
(* not empty and the call returned lines                                   *)
ReachedEnforcer ==
    /\ pc = "returned" /\ IsSummarize /\ HasBody
    /\ call.backend \in {"basic", "ollama", "llmapi"}

(* the lines the call handed to _ensure_line_count: the parsed response of *)
(* the backend, or the heuristic lines of BasicSummarizer (directly or as  *)
(* the fallback)                                                           *)
EnforcerInput ==
    IF ModelBacked /\ BackendAnswered
    THEN IF call.backend = "ollama"
         THEN OllamaParseSummaryResponse(Strip(outcome.text))
         ELSE LLMAPIParseSummaryResponse(Strip(outcome.text))
    ELSE CreateSummaryLines(call.content.title, ExtractSentences(call.content.content),
                            call.content.url)

(***************************************************************************)
(* C28: on every call path that reaches _ensure_line_count (heuristic,     *)
(* Ollama, LLM API) its input already has exactly 3 non-empty lines, so    *)
(* the enforcer neither truncates nor pads: the returned summary is the    *)
(* input, line by line (trimmed), and holds no line the enforcer inserted. *)
(***************************************************************************)
C28_EnforcerNeverResizes ==
    ReachedEnforcer =>
        /\ Len(EnforcerInput) = SUMMARY_LINES
        /\ \A i \in DOMAIN EnforcerInput : Strip(EnforcerInput[i]) # <<>>
        /\ result = StripAll(EnforcerInput)

(* one usable line from the LLM API: padded by the parser, not the enforcer *)
C28_Witness ==
    /\ ReachedEnforcer /\ call.backend = "llmapi" /\ BackendAnswered
    /\ Len(UsableLines(outcome.text)) = 1
    /\ call.content.url # <<>>
    /\ result[3] = <<"Full details available at source URL.">>

(***************************************************************************)
(* C29: the two heuristic implementations agree: for every title, body and *)
(* url with a trimmed title, HackerNewsSummarizer._generate_basic_summary  *)
(* returns the three lines that BasicSummarizer.summarize returns for the  *)
(* same ArticleContent, for an empty and for a non-empty body, and also    *)
(* for an empty url.                                                       *)
(***************************************************************************)
C29_HeuristicsAgree ==
    (pc = "returned" /\ call.backend = "legacy" /\ call.op = "basic"
          /\ Strip(call.content.title) = call.content.title)
        => result = BasicSummarizer_summarize(call.content)

(* an enhanced_summarize call on an empty body whose backend can be asked *)
EnhancedWithoutBody ==
    /\ ModelBacked /\ IsEnhanced /\ ~HasBody
    /\ call.backend = "llmapi" => api_key

(* " ".join(lines[:2]) of the no-content placeholder lines *)
NoContentGist(content) ==
    <<"Title:", " ">> \o content.title
        \o <<" ", "Content not available for summarization.">>

(***************************************************************************)
(* C30: enhanced_summarize has no no-content short-circuit: with an empty  *)
(* body (and, for the LLM API, the credential present) it still issues     *)
(* exactly one backend request, and when that fails it takes the usual     *)
(* allow_fallback branch: the basic-enhanced record whose article gist is  *)
(* built from the no-content placeholder lines, or the error that names    *)
(* the backend.                                                            *)
(***************************************************************************)
C30_EnhancedAlwaysAsks ==
    EnhancedWithoutBody =>
        /\ requests = 1
        /\ pc \in {"awaiting", "returned", "raised"}
        /\ (Done /\ BackendFailed) =>
              IF allow_fallback
              THEN /\ pc = "returned"
                   /\ enhanced[1].article_summary = NoContentGist(call.content)
                   /\ enhanced[1].key_points = BasicKeyPoints
              ELSE /\ pc = "raised"
                   /\ NamesBackend(error, call.backend)

(* no body, the request timed out, the fallback record describes no content *)
C30_Witness ==
    /\ EnhancedWithoutBody /\ call.backend = "ollama"
    /\ pc = "returned" /\ allow_fallback
    /\ outcome = Raised("Timeout")
    /\ requests = 1
    /\ call.content.title = <<"T">>
    /\ enhanced[1].article_summary =
          <<"Title:", " ", "T", " ", "Content not available for summarization.">>

====
